---- MODULE Spec2Model ----
(***************************************************************************)
(* Verification model of the KMU ground station (src/ground_station.py):   *)
(* the outbound frame encoder (send_message and its callers), the          *)
(* station-to-controller decoder (process_gs_message), the inbound frame   *)
(* checks and decoders (process_fc_message and the parse_* functions for   *)
(* AHRS, GPS binary and NMEA, PID gains, battery, ESC, flight mode and     *)
(* enhanced GPS frames) with what they write into latest_data, the serial  *)
(* read loop with its byte-stream demultiplexer (read_serial_data), the    *)
(* link session life cycle (connect, disconnect, reconnect_serial) and the *)
(* test data generator thread (_test_data_loop).                           *)
(*                                                                         *)
(* Bytes are integers 0..255, byte strings are sequences of bytes.         *)
(* The specifications share the variables:                                 *)
(*   SpecCodec  one call of the send path on a connected session, and the  *)
(*              written frame handed to process_gs_message                 *)
(*   SpecCall   one call of the send path, run as a whole, in any state    *)
(*              the session reaches                                        *)
(*   SpecDemux  one read loop fed a byte stream on a connected session     *)
(*   SpecFrames one read loop fed valid frames back-to-back               *)
(*   SpecRetry  the read loop of one session with data, port errors and   *)
(*              reconnects                                                 *)
(*   SpecFc     messages handed to process_fc_message                      *)
(*   SpecPid    PID gain frames handed to process_fc_message, interleaved  *)
(*              with send_pid_gain and request_pid_gain                    *)
(*   SpecNmea   NMEA sentences handed to process_fc_message with a         *)
(*              message id, and binary GPS frames                          *)
(*   SpecTest   connect (in its three steps), disconnect, received frames, *)
(*              /api/test_data, /api/stop_test_data, idle seconds, the     *)
(*              test data generator thread and the broadcast thread        *)
(*   Spec       the link session: connect, disconnect, /api/test_data, the *)
(*              read-loop threads, interleaved statement by statement, and *)
(*              the broadcast thread                                       *)
(*   SpecLive   the link session with one read-loop thread that is         *)
(*              scheduled fairly                                           *)
(*   SpecSend   the sender contexts of a connected session interleaved     *)
(*              with its read-loop thread                                  *)
(***************************************************************************)
EXTENDS Integers, Sequences, FiniteSets, TLC

\* ------------------------------------------------------------------ bounds
\* longest payload handed to send_message (16 is the protocol's payload size)
MaxPayloadLen == 18
\* longest freely chosen part of a garbage prefix in a demuxer stream
MaxGarbageVar == 3
\* read-loop threads that can exist at once (one is started per connect)
MaxReaders == 2
\* request contexts calling the send path concurrently
MaxSenders == 2
\* serial handles opened during one run (connect and reconnect_serial)
MaxHandles == 3
\* send calls started during one run
MaxSends == 2
\* messages handed to process_fc_message during one run
MaxFcCalls == 2
\* seconds that pass during one run of SpecTest
MaxClock == 4
\* frames sent back-to-back in one stream of SpecFrames
MaxFrames == 3
\* passes of _broadcast_loop made on a connected station during one run
MaxBroadcasts == 1

\* ------------------------------------------------------- program constants
SYNC_G == 71
SYNC_S == 83
SYNC_F == 70
SYNC_C == 67
DOLLAR == 36
CR == 13
LF == 10
FRAME_LEN == 20
PAD_LEN == 19
BUFFER_LIMIT == 100
max_reconnect_attempts == 5
PID_REQUEST_ID == 16
AHRS_ID == 16
GPS_ID == 17
PID_ACK_MAX_ID == 5
BATTERY_ID == 18
ESC_ID == 19
FLIGHT_MODE_ID == 20
GPS_ENHANCED_ID == 21
AHRS_MIN_LEN == 8
ANGLE_SCALE == 100
ANGLE_LIMIT == 180
YAW_LIMIT == 360

None == 0

\* ------------------------------------------------------------ byte strings
RECURSIVE Sum(_)
\* Python's sum() over a byte string
Sum(s) == IF s = <<>> THEN 0 ELSE Head(s) + Sum(Tail(s))

\* n zero bytes: b'\x00' * n, [0x00] * n
Zeros(n) == [i \in 1..n |-> 0]

\* Python slice s[a:b] with 0-based a, b already clipped to 0..len(s)
Slice(s, a, b) == IF b <= a THEN <<>> ELSE SubSeq(s, a + 1, b)

\* s[a:] with 0-based a
SliceFrom(s, a) == IF a >= Len(s) THEN <<>> ELSE SubSeq(s, a + 1, Len(s))

\* ------------------------------------------------------------ frame encoder
\* "while len(message) < 19: message.append(0x00)": pads, never truncates
PadTo19(message) ==
    IF Len(message) < PAD_LEN
    THEN message \o Zeros(PAD_LEN - Len(message))
    ELSE message

\* the bytearray send_message hands to serial_port.write
send_message_frame(message_id, data) ==
    LET message == PadTo19(<<SYNC_G, SYNC_S, message_id>> \o data)
        sum_bytes == Sum(message)
        checksum == (255 - sum_bytes) % 256
    IN  Append(message, checksum)

\* struct.pack('<f', v) for the gain values used as inputs
FloatValues == {"0.0", "1.0", "-1.0", "2.5", "1000.0"}
PackF32(v) ==
    CASE v = "0.0" -> <<0, 0, 0, 0>>
      [] v = "1.0" -> <<0, 0, 128, 63>>
      [] v = "-1.0" -> <<0, 0, 128, 191>>
      [] v = "2.5" -> <<0, 0, 32, 64>>
      [] v = "1000.0" -> <<0, 0, 122, 68>>

\* gain_map of send_pid_gain
GainTypes == {"roll_inner", "roll_outer", "pitch_inner", "pitch_outer",
              "yaw_angle", "yaw_rate"}
gain_map(gain_type) ==
    CASE gain_type = "roll_inner" -> 0
      [] gain_type = "roll_outer" -> 1
      [] gain_type = "pitch_inner" -> 2
      [] gain_type = "pitch_outer" -> 3
      [] gain_type = "yaw_angle" -> 4
      [] gain_type = "yaw_rate" -> 5

\* the payload send_pid_gain builds: struct.pack('<fff', p, i, d) + b'\x00' * 12
send_pid_gain_data(p, i, d) ==
    PackF32(p) \o PackF32(i) \o PackF32(d) \o Zeros(12)

\* the payload request_pid_gain builds: bytearray([gain_type]) + [0x00] * 15
request_pid_gain_data(gain_type) == <<gain_type>> \o Zeros(15)

\* calculate_checksum(data) with checksum_index left at None: 0xFF minus the
\* sum of all bytes but the last, masked to 8 bits
calculate_checksum(data) ==
    IF Len(data) < 1 THEN 0
    ELSE (255 - Sum(SubSeq(data, 1, Len(data) - 1))) % 256

\* --------------------------------------- station-to-controller decoder
\* process_gs_message: length, sync and checksum checks, then the id and
\* payload slices
process_gs_message(message) ==
    IF Len(message) # FRAME_LEN
    THEN [status |-> "BadLength", message_id |-> None, data |-> <<>>]
    ELSE IF SubSeq(message, 1, 2) # <<SYNC_G, SYNC_S>>
    THEN [status |-> "BadSync", message_id |-> None, data |-> <<>>]
    ELSE IF message[20] # (255 - Sum(SubSeq(message, 1, 19))) % 256
    THEN [status |-> "BadChecksum", message_id |-> None, data |-> <<>>]
    ELSE [status |-> "ok", message_id |-> message[3],
          data |-> SubSeq(message, 4, 19)]

\* ------------------------------------------------- inbound frame checks
\* a checksum that leaves out the last payload byte
fc_checksum_short(message) == (255 - Sum(SubSeq(message, 1, 18))) % 256

\* the checksum process_fc_message computes over bytes 0..18 of a message
fc_checksum(message) == (255 - Sum(SubSeq(message, 1, 19))) % 256

\* a frame check that leaves out the comparison of the sync bytes
fc_status_no_sync(message) ==
    IF Len(message) # FRAME_LEN THEN "BadLength"
    ELSE IF message[20] # fc_checksum(message) THEN "BadChecksum"
    ELSE "ok"

\* process_fc_message, binary path: the length, sync and checksum checks in
\* the order of the code; "ok" means the frame reaches the id dispatch
fc_status(message) ==
    IF Len(message) # FRAME_LEN THEN "BadLength"
    ELSE IF SubSeq(message, 1, 2) # <<SYNC_F, SYNC_C>> THEN "BadSync"
    ELSE IF message[20] # fc_checksum(message) THEN "BadChecksum"
    ELSE "ok"

\* "message[3:19]" shifted down by one byte
fc_payload_shifted(message) == SubSeq(message, 3, 18)

\* "data = message[3:19]"
fc_payload(message) == SubSeq(message, 4, 19)

\* the routing with the acknowledgement range taken as every id below the
\* AHRS id
fc_parser_below_ahrs(message_id) ==
    IF message_id = AHRS_ID THEN "parse_ahrs_message"
    ELSE IF message_id = GPS_ID THEN "parse_gps_message"
    ELSE IF 0 <= message_id /\ message_id < AHRS_ID THEN "parse_pid_gain_ack"
    ELSE IF message_id = BATTERY_ID THEN "parse_battery_status"
    ELSE IF message_id = ESC_ID THEN "parse_esc_status"
    ELSE IF message_id = FLIGHT_MODE_ID THEN "parse_flight_mode_status"
    ELSE IF message_id = GPS_ENHANCED_ID THEN "parse_gps_enhanced_status"
    ELSE "none"

\* the if-chain on message_id of process_fc_message: the parser called
fc_parser(message_id) ==
    IF message_id = AHRS_ID THEN "parse_ahrs_message"
    ELSE IF message_id = GPS_ID THEN "parse_gps_message"
    ELSE IF 0 <= message_id /\ message_id <= PID_ACK_MAX_ID THEN "parse_pid_gain_ack"
    ELSE IF message_id = BATTERY_ID THEN "parse_battery_status"
    ELSE IF message_id = ESC_ID THEN "parse_esc_status"
    ELSE IF message_id = FLIGHT_MODE_ID THEN "parse_flight_mode_status"
    ELSE IF message_id = GPS_ENHANCED_ID THEN "parse_gps_enhanced_status"
    ELSE "none"

\* process_fc_message, binary path, up to the parser call: the outcome of
\* the checks and, when they pass, the parser with its message id and payload
process_fc_message(message) ==
    IF fc_status(message) # "ok"
    THEN [status |-> fc_status(message), parser |-> "none",
          message_id |-> None, data |-> <<>>]
    ELSE [status |-> "ok", parser |-> fc_parser(message[3]),
          message_id |-> message[3], data |-> fc_payload(message)]

\* ----------------------------------------------------------- AHRS decoder
\* struct.unpack('<H', b)[0] and struct.unpack('<h', b)[0] on two bytes
U16(b) == b[1] + 256 * b[2]
I16(b) == IF U16(b) >= 32768 THEN U16(b) - 65536 ELSE U16(b)

\* abs()
Abs(x) == IF x < 0 THEN -x ELSE x

\* Angles are carried in hundredths of a degree: the integer that the code
\* divides by 100.0. The quotient is exact to the nearest double and rounding
\* is monotonic, so for a 16-bit raw value "raw / 100.0 > 180" is
\* "raw > 180 * 100". Altitudes are carried in tenths of a metre likewise.
\* the range check with the limits themselves excluded
ahrs_in_range_strict(roll_angle, pitch_angle, yaw_angle) ==
    ~(\/ Abs(roll_angle) >= ANGLE_LIMIT * ANGLE_SCALE
      \/ Abs(pitch_angle) >= ANGLE_LIMIT * ANGLE_SCALE
      \/ Abs(yaw_angle) >= YAW_LIMIT * ANGLE_SCALE)

\* "if abs(roll_angle) > 180 or abs(pitch_angle) > 180 or abs(yaw_angle) > 360:
\*      return None", negated
ahrs_in_range(roll_angle, pitch_angle, yaw_angle) ==
    ~(\/ Abs(roll_angle) > ANGLE_LIMIT * ANGLE_SCALE
      \/ Abs(pitch_angle) > ANGLE_LIMIT * ANGLE_SCALE
      \/ Abs(yaw_angle) > YAW_LIMIT * ANGLE_SCALE)

\* parse_ahrs_message(data) at time now: {} for None, else the set holding
\* the dict returned
parse_ahrs_message(data, now) ==
    IF Len(data) < AHRS_MIN_LEN THEN {}
    ELSE LET roll_angle == I16(Slice(data, 0, 2))
             pitch_angle == I16(Slice(data, 2, 4))
             yaw_angle == U16(Slice(data, 4, 6))
             altitude == I16(Slice(data, 6, 8))
             full == Len(data) >= 16
         IN  IF ~ahrs_in_range(roll_angle, pitch_angle, yaw_angle) THEN {}
             ELSE {[roll_angle |-> roll_angle,
                    pitch_angle |-> pitch_angle,
                    yaw_angle |-> yaw_angle,
                    altitude |-> altitude,
                    roll_setpoint |-> IF full THEN I16(Slice(data, 8, 10))
                                      ELSE roll_angle,
                    pitch_setpoint |-> IF full THEN I16(Slice(data, 10, 12))
                                       ELSE pitch_angle,
                    yaw_setpoint |-> IF full THEN U16(Slice(data, 12, 14))
                                     ELSE yaw_angle,
                    altitude_setpoint |-> IF full THEN I16(Slice(data, 14, 16))
                                          ELSE altitude,
                    timestamp |-> now]}

\* ------------------------------------------------------- numbers in records
\* A decimal or a quotient the code holds as a float is carried exactly, as
\* numerator over denominator in lowest terms (den > 0), so that equal
\* numbers are equal records.
RECURSIVE GCD(_, _)
GCD(a, b) == IF b = 0 THEN a ELSE GCD(b, a % b)

Rat(num, den) ==
    LET g == GCD(den, num % den)
    IN  [num |-> num \div g, den |-> den \div g]
Zero == Rat(0, 1)

\* struct.unpack('<l', b)[0] on four bytes
I32(b) ==
    b[1] + 256 * b[2] + 65536 * b[3]
        + 16777216 * (IF b[4] >= 128 THEN b[4] - 256 ELSE b[4])

\* struct.unpack('<I', b)[0] on four bytes, as its low and high 16-bit halves
U32(b) == [lo |-> U16(SubSeq(b, 1, 2)), hi |-> U16(SubSeq(b, 3, 4))]

\* struct.unpack('<f', b)[0] on four bytes: the sign bit, the 8-bit exponent
\* and the 23-bit fraction of the IEEE 754 single the bytes hold
F32(b) ==
    [sign |-> b[4] \div 128,
     exp |-> (b[4] % 128) * 2 + b[3] \div 128,
     mant |-> (b[3] % 128) * 65536 + b[2] * 256 + b[1]]

\* math.isnan(value) or math.isinf(value)
F32_EXP_SPECIAL == 255
is_nan_or_inf(value) == value.exp = F32_EXP_SPECIAL

\* abs(value) > 1000 for a finite single: 1000.0 is exponent 136 with
\* fraction 0x7A0000
PID_LIMIT_EXP == 136
PID_LIMIT_MANT == 7995392
abs_above_pid_limit(value) ==
    \/ value.exp > PID_LIMIT_EXP
    \/ value.exp = PID_LIMIT_EXP /\ value.mant > PID_LIMIT_MANT

\* a validity test that lets every finite value pass
is_valid_pid_value_finite(value) == ~is_nan_or_inf(value)

\* is_valid_pid_value of parse_pid_gain_ack
is_valid_pid_value(value) ==
    ~is_nan_or_inf(value) /\ ~abs_above_pid_limit(value)

\* ------------------------------------------------- PID acknowledgement
\* gain_names.get(message_id, f'unknown_{message_id}') of parse_pid_gain_ack
gain_names(message_id) ==
    CASE message_id = 0 -> "roll_inner"
      [] message_id = 1 -> "roll_outer"
      [] message_id = 2 -> "pitch_inner"
      [] message_id = 3 -> "pitch_outer"
      [] message_id = 4 -> "yaw_angle"
      [] message_id = 5 -> "yaw_rate"
      [] OTHER -> "unknown_" \o ToString(message_id)

PID_MIN_LEN == 12

\* parse_pid_gain_ack(message_id, data) at time now
parse_pid_gain_ack(message_id, data, now) ==
    IF Len(data) < PID_MIN_LEN THEN {}
    ELSE LET p == F32(Slice(data, 0, 4))
             i == F32(Slice(data, 4, 8))
             d == F32(Slice(data, 8, 12))
         IN  IF ~(is_valid_pid_value(p) /\ is_valid_pid_value(i)
                    /\ is_valid_pid_value(d))
             THEN {}
             ELSE {[type |-> gain_names(message_id), p |-> p, i |-> i, d |-> d,
                    timestamp |-> now]}

\* --------------------------------------------------------------- GPS frame
\* Coordinates of a frame are carried as Rat(raw, 10^7): the 32-bit integer
\* the code divides by 10000000.0. A voltage is carried in hundredths of a
\* volt (the integer the code divides by 100.0), a battery percentage in
\* units of 1/174 percent, in which both formulas of the program are exact:
\* (v - 3.0) * 100 / 1.2 is (raw - 300) * 145 units and
\* (v - 11.0) / 5.8 * 100 is (raw - 1100) * 30 units.
GPS_MIN_LEN == 16
COORD_SCALE == 10000000
LAT_LIMIT == 90
LON_LIMIT == 180
VOLT_SCALE == 100
NMEA_BATTERY_VOLTAGE == 1150
LOW_BATTERY_LIMIT == 350

PERCENT_SCALE == 174
CELL_VOLTAGE_EMPTY == 300
CELL_VOLTAGE_SPAN == 120
FULL_PERCENT == 100 * PERCENT_SCALE

\* min(100, max(0, x)) on a percentage in its units
ClipPercent(units) ==
    IF units < 0 THEN 0 ELSE IF units > FULL_PERCENT THEN FULL_PERCENT
    ELSE units

\* "min(100, max(0, (battery_voltage - 3.0) * 100 / (4.2 - 3.0)))"
cell_percentage(battery_voltage) ==
    ClipPercent(((battery_voltage - CELL_VOLTAGE_EMPTY) * 100 * PERCENT_SCALE)
                    \div CELL_VOLTAGE_SPAN)

\* the range check with the longitude bound used for the latitude as well
gps_in_range_wide(latitude_raw, longitude_raw) ==
    ~(\/ latitude_raw > LON_LIMIT * COORD_SCALE
      \/ latitude_raw < -(LON_LIMIT * COORD_SCALE)
      \/ longitude_raw > LON_LIMIT * COORD_SCALE
      \/ longitude_raw < -(LON_LIMIT * COORD_SCALE))

\* "if abs(latitude) > 90 or abs(longitude) > 180: return None", negated,
\* on the raw integers (raw / 1e7 > 90 exactly when raw > 90 * 10^7)
gps_in_range(latitude_raw, longitude_raw) ==
    ~(\/ latitude_raw > LAT_LIMIT * COORD_SCALE
      \/ latitude_raw < -(LAT_LIMIT * COORD_SCALE)
      \/ longitude_raw > LON_LIMIT * COORD_SCALE
      \/ longitude_raw < -(LON_LIMIT * COORD_SCALE))

\* parse_gps_message(data) at time now, binary layout (the payload does not
\* start with '$')
parse_gps_binary(data, now) ==
    LET latitude_raw == I32(Slice(data, 0, 4))
        longitude_raw == I32(Slice(data, 4, 8))
        battery_voltage == U16(Slice(data, 8, 10))
        failsafe == data[13]
    IN  IF ~gps_in_range(latitude_raw, longitude_raw) THEN {}
        ELSE {[latitude |-> Rat(latitude_raw, COORD_SCALE),
               longitude |-> Rat(longitude_raw, COORD_SCALE),
               altitude |-> Zero,
               battery_voltage |-> battery_voltage,
               swa |-> data[11],
               swc |-> data[12],
               failsafe |-> failsafe,
               failsafe_triggered |-> (failsafe = 1),
               gps_fix |-> IF latitude_raw # 0 /\ longitude_raw # 0 THEN 1 ELSE 0,
               gps_satellites |-> 0,
               battery_percentage |-> cell_percentage(battery_voltage),
               low_battery_warning |-> (battery_voltage < LOW_BATTERY_LIMIT),
               timestamp |-> now]}

\* ---------------------------------------------------------- NMEA sentences
\* A sentence is the sequence of its bytes; a Python str is the sequence of
\* its characters' codes.
COMMA == 44
STAR == 42
DOT == 46
PLUS == 43
MINUS == 45
CHAR_A == 65
CHAR_S == 83
CHAR_W == 87
Digits == 48..57
\* what str.strip() removes (ASCII)
Whitespace == {9, 10, 11, 12, 13, 28, 29, 30, 31, 32}
GPGGA_TYPE == <<71, 80, 71, 71, 65>>
GPRMC_TYPE == <<71, 80, 82, 77, 67>>
GPGSV_TYPE == <<71, 80, 71, 83, 86>>
GPGGA_MIN_FIELDS == 15
GPRMC_MIN_FIELDS == 12
MINUTES_PER_DEGREE == 60

\* data.decode('ascii', errors='ignore'): bytes above 127 are left out
DecodeAscii(data) == SelectSeq(data, LAMBDA b : b < 128)

\* str.strip()
Strip(s) ==
    LET keep == {k \in 1..Len(s) : s[k] \notin Whitespace}
    IN  IF keep = {} THEN <<>>
        ELSE SubSeq(s, CHOOSE k \in keep : \A j \in keep : k <= j,
                       CHOOSE k \in keep : \A j \in keep : k >= j)

\* s[:n] and s[n:] on a str
Take(s, n) == IF Len(s) <= n THEN s ELSE SubSeq(s, 1, n)
Drop(s, n) == SliceFrom(s, n)

RECURSIVE Split(_, _)
\* str.split(sep)
Split(s, sep) ==
    LET hits == {k \in 1..Len(s) : s[k] = sep}
    IN  IF hits = {} THEN <<s>>
        ELSE LET k == CHOOSE h \in hits : \A j \in hits : h <= j
             IN  <<SubSeq(s, 1, k - 1)>> \o Split(SliceFrom(s, k), sep)

RECURSIVE DigitsValue(_)
\* the number a string of decimal digits denotes
DigitsValue(s) ==
    IF s = <<>> THEN 0
    ELSE 10 * DigitsValue(SubSeq(s, 1, Len(s) - 1)) + (s[Len(s)] - 48)

RECURSIVE Pow10(_)
Pow10(n) == IF n = 0 THEN 1 ELSE 10 * Pow10(n - 1)

\* a string without its sign character, and the sign it carried
Unsigned(s) == IF s # <<>> /\ s[1] \in {PLUS, MINUS} THEN Tail(s) ELSE s
SignOf(s) == IF s # <<>> /\ s[1] = MINUS THEN -1 ELSE 1

\* what float() and int() skip at both ends of an ASCII str
NumberWhitespace == {9, 10, 11, 12, 13, 32}
UNDERSCORE == 95
CHAR_E == 69
CHAR_Z == 90
INF_WORD == <<105, 110, 102>>
INFINITY_WORD == <<105, 110, 102, 105, 110, 105, 116, 121>>
NAN_WORD == <<110, 97, 110>>
\* float() rounds to the nearest double, ties to even: a number of
\* F64_MAX_EXP10 integer digits is inf from 2^1024 - 2^970 on (half way
\* between the largest double and 2^1024), and a number 0.d1d2... * 10^-323
\* is 0.0 up to 2^-1075 (half of the smallest double)
F64_MAX_EXP10 == 309
F64_MIN_EXP10 == 323
\* the digits of 2^1024 - 2^970
F64_OVERFLOW_DIGITS ==
    <<1, 7, 9, 7, 6, 9, 3, 1, 3, 4, 8, 6, 2, 3, 1, 5, 8, 0, 7, 9, 3, 7, 2, 8, 9,
      7, 1, 4, 0, 5, 3, 0, 3, 4, 1, 5, 0, 7, 9, 9, 3, 4, 1, 3, 2, 7, 1, 0, 0, 3,
      7, 8, 2, 6, 9, 3, 6, 1, 7, 3, 7, 7, 8, 9, 8, 0, 4, 4, 4, 9, 6, 8, 2, 9, 2,
      7, 6, 4, 7, 5, 0, 9, 4, 6, 6, 4, 9, 0, 1, 7, 9, 7, 7, 5, 8, 7, 2, 0, 7, 0,
      9, 6, 3, 3, 0, 2, 8, 6, 4, 1, 6, 6, 9, 2, 8, 8, 7, 9, 1, 0, 9, 4, 6, 5, 5,
      5, 5, 4, 7, 8, 5, 1, 9, 4, 0, 4, 0, 2, 6, 3, 0, 6, 5, 7, 4, 8, 8, 6, 7, 1,
      5, 0, 5, 8, 2, 0, 6, 8, 1, 9, 0, 8, 9, 0, 2, 0, 0, 0, 7, 0, 8, 3, 8, 3, 6,
      7, 6, 2, 7, 3, 8, 5, 4, 8, 4, 5, 8, 1, 7, 7, 1, 1, 5, 3, 1, 7, 6, 4, 4, 7,
      5, 7, 3, 0, 2, 7, 0, 0, 6, 9, 8, 5, 5, 5, 7, 1, 3, 6, 6, 9, 5, 9, 6, 2, 2,
      8, 4, 2, 9, 1, 4, 8, 1, 9, 8, 6, 0, 8, 3, 4, 9, 3, 6, 4, 7, 5, 2, 9, 2, 7,
      1, 9, 0, 7, 4, 1, 6, 8, 4, 4, 4, 3, 6, 5, 5, 1, 0, 7, 0, 4, 3, 4, 2, 7, 1,
      1, 5, 5, 9, 6, 9, 9, 5, 0, 8, 0, 9, 3, 0, 4, 2, 8, 8, 0, 1, 7, 7, 9, 0, 4,
      1, 7, 4, 4, 9, 7, 7, 9, 2>>
\* the significant digits of 2^-1075 = 0.2470... * 10^-323
F64_UNDERFLOW_DIGITS ==
    <<2, 4, 7, 0, 3, 2, 8, 2, 2, 9, 2, 0, 6, 2, 3, 2, 7, 2, 0, 8, 8, 2, 8, 4, 3,
      9, 6, 4, 3, 4, 1, 1, 0, 6, 8, 6, 1, 8, 2, 5, 2, 9, 9, 0, 1, 3, 0, 7, 1, 6,
      2, 3, 8, 2, 2, 1, 2, 7, 9, 2, 8, 4, 1, 2, 5, 0, 3, 3, 7, 7, 5, 3, 6, 3, 5,
      1, 0, 4, 3, 7, 5, 9, 3, 2, 6, 4, 9, 9, 1, 8, 1, 8, 0, 8, 1, 7, 9, 9, 6, 1,
      8, 9, 8, 9, 8, 2, 8, 2, 3, 4, 7, 7, 2, 2, 8, 5, 8, 8, 6, 5, 4, 6, 3, 3, 2,
      8, 3, 5, 5, 1, 7, 7, 9, 6, 9, 8, 9, 8, 1, 9, 9, 3, 8, 7, 3, 9, 8, 0, 0, 5,
      3, 9, 0, 9, 3, 9, 0, 6, 3, 1, 5, 0, 3, 5, 6, 5, 9, 5, 1, 5, 5, 7, 0, 2, 2,
      6, 3, 9, 2, 2, 9, 0, 8, 5, 8, 3, 9, 2, 4, 4, 9, 1, 0, 5, 1, 8, 4, 4, 3, 5,
      9, 3, 1, 8, 0, 2, 8, 4, 9, 9, 3, 6, 5, 3, 6, 1, 5, 2, 5, 0, 0, 3, 1, 9, 3,
      7, 0, 4, 5, 7, 6, 7, 8, 2, 4, 9, 2, 1, 9, 3, 6, 5, 6, 2, 3, 6, 6, 9, 8, 6,
      3, 6, 5, 8, 4, 8, 0, 7, 5, 7, 0, 0, 1, 5, 8, 5, 7, 6, 9, 2, 6, 9, 9, 0, 3,
      7, 0, 6, 3, 1, 1, 9, 2, 8, 2, 7, 9, 5, 5, 8, 5, 5, 1, 3, 3, 2, 9, 2, 7, 8,
      3, 4, 3, 3, 8, 4, 0, 9, 3, 5, 1, 9, 7, 8, 0, 1, 5, 5, 3, 1, 2, 4, 6, 5, 9,
      7, 2, 6, 3, 5, 7, 9, 5, 7, 4, 6, 2, 2, 7, 6, 6, 4, 6, 5, 2, 7, 2, 8, 2, 7,
      2, 2, 0, 0, 5, 6, 3, 7, 4, 0, 0, 6, 4, 8, 5, 4, 9, 9, 9, 7, 7, 0, 9, 6, 5,
      9, 9, 4, 7, 0, 4, 5, 4, 0, 2, 0, 8, 2, 8, 1, 6, 6, 2, 2, 6, 2, 3, 7, 8, 5,
      7, 3, 9, 3, 4, 5, 0, 7, 3, 6, 3, 3, 9, 0, 0, 7, 9, 6, 7, 7, 6, 1, 9, 3, 0,
      5, 7, 7, 5, 0, 6, 7, 4, 0, 1, 7, 6, 3, 2, 4, 6, 7, 3, 6, 0, 0, 9, 6, 8, 9,
      5, 1, 3, 4, 0, 5, 3, 5, 5, 3, 7, 4, 5, 8, 5, 1, 6, 6, 6, 1, 1, 3, 4, 2, 2,
      3, 7, 6, 6, 6, 7, 8, 6, 0, 4, 1, 6, 2, 1, 5, 9, 6, 8, 0, 4, 6, 1, 9, 1, 4,
      4, 6, 7, 2, 9, 1, 8, 4, 0, 3, 0, 0, 5, 3, 0, 0, 5, 7, 5, 3, 0, 8, 4, 9, 0,
      4, 8, 7, 6, 5, 3, 9, 1, 7, 1, 1, 3, 8, 6, 5, 9, 1, 6, 4, 6, 2, 3, 9, 5, 2,
      4, 9, 1, 2, 6, 2, 3, 6, 5, 3, 8, 8, 1, 8, 7, 9, 6, 3, 6, 2, 3, 9, 3, 7, 3,
      2, 8, 0, 4, 2, 3, 8, 9, 1, 0, 1, 8, 6, 7, 2, 3, 4, 8, 4, 9, 7, 6, 6, 8, 2,
      3, 5, 0, 8, 9, 8, 6, 3, 3, 8, 8, 5, 8, 7, 9, 2, 5, 6, 2, 8, 3, 0, 2, 7, 5,
      5, 9, 9, 5, 6, 5, 7, 5, 2, 4, 4, 5, 5, 5, 0, 7, 2, 5, 5, 1, 8, 9, 3, 1, 3,
      6, 9, 0, 8, 3, 6, 2, 5, 4, 7, 7, 9, 1, 8, 6, 9, 4, 8, 6, 6, 7, 9, 9, 4, 9,
      6, 8, 3, 2, 4, 0, 4, 9, 7, 0, 5, 8, 2, 1, 0, 2, 8, 5, 1, 3, 1, 8, 5, 4, 5,
      1, 3, 9, 6, 2, 1, 3, 8, 3, 7, 7, 2, 2, 8, 2, 6, 1, 4, 5, 4, 3, 7, 6, 9, 3,
      4, 1, 2, 5, 3, 2, 0, 9, 8, 5, 9, 1, 3, 2, 7, 6, 6, 7, 2, 3, 6, 3, 2, 8, 1,
      2, 5>>
\* an exponent of more digits than this is beyond both limits
EXP_DIGITS_MAX == 5
EXP_HUGE == 100000

\* inf, -inf and nan are carried with denominator 0
Inf == [num |-> 1, den |-> 0]
NegInf == [num |-> -1, den |-> 0]
NaN == [num |-> 0, den |-> 0]
\* -x
Neg(x) == [num |-> -x.num, den |-> x.den]

\* the blanks float() and int() skip, removed at both ends
NumberStrip(s) ==
    LET keep == {k \in 1..Len(s) : s[k] \notin NumberWhitespace}
    IN  IF keep = {} THEN <<>>
        ELSE SubSeq(s, CHOOSE k \in keep : \A j \in keep : k <= j,
                       CHOOSE k \in keep : \A j \in keep : k >= j)

\* an underscore that does not stand between two digits
bad_underscore(s) ==
    \E k \in 1..Len(s) :
        /\ s[k] = UNDERSCORE
        /\ \/ k = 1
           \/ k = Len(s)
           \/ s[k - 1] \notin Digits
           \/ s[k + 1] \notin Digits

\* str.lower() on ASCII
Lower(s) ==
    [k \in 1..Len(s) |-> IF s[k] \in 65..CHAR_Z THEN s[k] + 32 ELSE s[k]]

RECURSIVE Significant(_)
\* a string of digits without its leading zeros
Significant(digits) ==
    IF digits # <<>> /\ digits[1] = 48 THEN Significant(Tail(digits))
    ELSE digits

\* the value of an exponent's digits, EXP_HUGE for every value beyond the
\* range of a double
ExponentValue(digits) ==
    IF Len(Significant(digits)) > EXP_DIGITS_MAX THEN EXP_HUGE
    ELSE DigitsValue(Significant(digits))

\* the digit value at place k of a string of digits and of a tuple of
\* digit values, each continued with zeros
digit_at(digits, k) == IF k <= Len(digits) THEN digits[k] - 48 ELSE 0
bound_at(bound, k) == IF k <= Len(bound) THEN bound[k] ELSE 0

\* 0.digits against 0.bound: -1 below, 0 equal, 1 above
compare_digits(digits, bound) ==
    LET n == IF Len(digits) > Len(bound) THEN Len(digits) ELSE Len(bound)
        differ == {k \in 1..n : digit_at(digits, k) # bound_at(bound, k)}
    IN  IF differ = {} THEN 0
        ELSE IF \E k \in differ :
                    /\ \A j \in differ : k <= j
                    /\ digit_at(digits, k) > bound_at(bound, k)
             THEN 1
             ELSE -1

\* where digits * 10^exp10 (digits without leading zeros, not empty) falls
\* when rounded to a double: "inf", "zero" or "finite"
double_range(digits, exp10) ==
    LET size == Len(digits) + exp10
    IN  IF \/ size > F64_MAX_EXP10
           \/ /\ size = F64_MAX_EXP10
              /\ compare_digits(digits, F64_OVERFLOW_DIGITS) >= 0
        THEN "inf"
        ELSE IF \/ size < -F64_MIN_EXP10
                \/ /\ size = -F64_MIN_EXP10
                   /\ compare_digits(digits, F64_UNDERFLOW_DIGITS) <= 0
        THEN "zero"
        ELSE "finite"

\* sign * digits * 10^exp10 as a double: inf from the overflow cut on, 0 up
\* to the underflow cut, else the exact quotient
Scaled(sign, digits, exp10) ==
    LET range == IF Significant(digits) = <<>> THEN "zero"
                 ELSE double_range(Significant(digits), exp10)
    IN  IF range = "zero" THEN Zero
        ELSE IF range = "inf" THEN (IF sign < 0 THEN NegInf ELSE Inf)
        ELSE IF exp10 >= 0
             THEN Rat(sign * DigitsValue(digits) * Pow10(exp10), 1)
             ELSE Rat(sign * DigitsValue(digits), Pow10(-exp10))

\* a decimal number in its parts: the text before the exponent mark and the
\* text after it (has_exponent tells whether there is a mark)
float_decimal(sign, mantissa, exponent, has_exponent) ==
    LET dots == {k \in 1..Len(mantissa) : mantissa[k] = DOT}
        digits == SelectSeq(mantissa, LAMBDA c : c \in Digits)
        decimals == IF dots = {} THEN 0
                    ELSE Len(mantissa) - (CHOOSE k \in dots : TRUE)
    IN  IF \/ digits = <<>>
           \/ Cardinality(dots) > 1
           \/ \E k \in 1..Len(mantissa) : mantissa[k] \notin Digits \cup {DOT}
           \/ /\ has_exponent
              /\ \/ Unsigned(exponent) = <<>>
                 \/ \E k \in 1..Len(exponent) :
                        /\ exponent[k] \notin Digits
                        /\ ~(k = 1 /\ exponent[1] \in {PLUS, MINUS})
        THEN {}
        ELSE {Scaled(sign, digits,
                     SignOf(exponent) * ExponentValue(Unsigned(exponent))
                        - decimals)}

\* a number without its sign, in lower case: inf, infinity, nan or a decimal
\* number, which is cut at its first exponent mark
float_unsigned(sign, body) ==
    IF body \in {INF_WORD, INFINITY_WORD}
    THEN {IF sign < 0 THEN NegInf ELSE Inf}
    ELSE IF body = NAN_WORD THEN {NaN}
    ELSE UNION {float_decimal(sign, SubSeq(body, 1, e - 1),
                              SubSeq(body, e + 1, Len(body)), e <= Len(body)) :
                e \in {IF \E k \in 1..Len(body) : body[k] = CHAR_E + 32
                       THEN CHOOSE k \in 1..Len(body) :
                                /\ body[k] = CHAR_E + 32
                                /\ \A j \in 1..(k - 1) : body[j] # CHAR_E + 32
                       ELSE Len(body) + 1}}

\* float(s): {} when it raises ValueError, else the set of the value:
\* [sign] (inf | infinity | nan | digits [. digits] [e [sign] digits]) in
\* either case, between blanks, digits grouped by single underscores. A
\* finite value is carried exactly (the rounding to a double is left out),
\* so numerators and denominators are limited by the integers of the
\* checker.
ParseFloat(s) ==
    UNION {IF bad_underscore(t) THEN {}
           ELSE UNION {float_unsigned(SignOf(u), Lower(Unsigned(u))) :
                       u \in {SelectSeq(t, LAMBDA c : c # UNDERSCORE)}} :
           t \in {NumberStrip(s)}}

\* int(s): {} when it raises ValueError, else the set of the value:
\* [sign] digits between blanks, digits grouped by single underscores
ParseInt(s) ==
    UNION {IF \/ bad_underscore(t)
              \/ Unsigned(t) = <<>>
              \/ \E k \in 1..Len(t) :
                    /\ t[k] \notin Digits \cup {UNDERSCORE}
                    /\ ~(k = 1 /\ t[1] \in {PLUS, MINUS})
           THEN {}
           ELSE {SignOf(t) * DigitsValue(SelectSeq(t, LAMBDA c : c \in Digits))} :
           t \in {NumberStrip(s)}}

\* "float(f) if f else default", "int(f) if f else default"
FloatOr(f, default) == IF f = <<>> THEN {default} ELSE ParseFloat(f)
IntOr(f, default) == IF f = <<>> THEN {default} ELSE ParseInt(f)

\* x + y / 60.0 when one of them is inf or nan
DegMinSpecial(deg, min) ==
    IF deg = NaN \/ min = NaN THEN NaN
    ELSE IF deg.den # 0 THEN min
    ELSE IF min.den # 0 \/ min = deg THEN deg
    ELSE NaN

\* degrees and minutes read as one decimal number of degrees
DegMinDecimal(deg, min) ==
    IF deg.den = 0 \/ min.den = 0 THEN DegMinSpecial(deg, min)
    ELSE Rat(deg.num * min.den * 100 + min.num * deg.den,
             deg.den * min.den * 100)

\* degrees + minutes / 60.0, exact on finite values
DegMin(deg, min) ==
    IF deg.den = 0 \/ min.den = 0 THEN DegMinSpecial(deg, min)
    ELSE Rat(deg.num * min.den * MINUTES_PER_DEGREE + min.num * deg.den,
             deg.den * min.den * MINUTES_PER_DEGREE)

\* the coordinate conversion of parse_gpgga and parse_gprmc: str is the
\* field ("0" taken for an empty one), width the number of degree digits,
\* dir the direction field; {} when a float() raises
nmea_coordinate(str, dir, width, negative_dir) ==
    IF str = <<>> \/ str = <<48>> THEN {Zero}
    ELSE LET deg == ParseFloat(Take(str, width))
             min == ParseFloat(Drop(str, width))
         IN  IF deg = {} \/ min = {} THEN {}
             ELSE LET value == DegMin(CHOOSE x \in deg : TRUE,
                                      CHOOSE x \in min : TRUE)
                  IN  IF dir = <<negative_dir>>
                      THEN {Neg(value)}
                      ELSE {value}

\* parse_gpgga(sentence) at time now
parse_gpgga(sentence, now) ==
    LET fields == Split(sentence, COMMA)
    IN  IF Len(fields) < GPGGA_MIN_FIELDS THEN {}
        ELSE LET latitude == nmea_coordinate(fields[3], fields[4], 2, CHAR_S)
                 longitude == nmea_coordinate(fields[5], fields[6], 3, CHAR_W)
                 fix_quality == IntOr(fields[7], 0)
                 satellites == IntOr(fields[8], 0)
                 hdop == FloatOr(fields[9], Zero)
                 altitude == ParseFloat(IF fields[10] = <<>> THEN <<48>>
                                        ELSE fields[10])
             IN  IF \/ latitude = {} \/ longitude = {} \/ fix_quality = {}
                    \/ satellites = {} \/ hdop = {} \/ altitude = {}
                 THEN {}
                 ELSE {[latitude |-> CHOOSE x \in latitude : TRUE,
                        longitude |-> CHOOSE x \in longitude : TRUE,
                        altitude |-> CHOOSE x \in altitude : TRUE,
                        battery_voltage |-> NMEA_BATTERY_VOLTAGE,
                        swa |-> 0,
                        swc |-> 0,
                        failsafe |-> 0,
                        failsafe_triggered |-> FALSE,
                        gps_fix |-> CHOOSE x \in fix_quality : TRUE,
                        gps_satellites |-> CHOOSE x \in satellites : TRUE,
                        battery_percentage |->
                            cell_percentage(NMEA_BATTERY_VOLTAGE),
                        low_battery_warning |->
                            (NMEA_BATTERY_VOLTAGE < LOW_BATTERY_LIMIT),
                        timestamp |-> now]}

\* parse_gprmc(sentence) at time now
parse_gprmc(sentence, now) ==
    LET fields == Split(sentence, COMMA)
    IN  IF Len(fields) < GPRMC_MIN_FIELDS THEN {}
        ELSE LET speed_knots == FloatOr(fields[8], Zero)
                 track_angle == FloatOr(fields[9], Zero)
                 latitude == nmea_coordinate(fields[4], fields[5], 2, CHAR_S)
                 longitude == nmea_coordinate(fields[6], fields[7], 3, CHAR_W)
             IN  IF \/ speed_knots = {} \/ track_angle = {}
                    \/ latitude = {} \/ longitude = {}
                 THEN {}
                 ELSE {[latitude |-> CHOOSE x \in latitude : TRUE,
                        longitude |-> CHOOSE x \in longitude : TRUE,
                        altitude |-> Zero,
                        battery_voltage |-> NMEA_BATTERY_VOLTAGE,
                        swa |-> 0,
                        swc |-> 0,
                        failsafe |-> 0,
                        failsafe_triggered |-> FALSE,
                        gps_fix |-> IF fields[3] = <<CHAR_A>> THEN 1 ELSE 0,
                        gps_satellites |-> 0,
                        battery_percentage |-> FULL_PERCENT,
                        low_battery_warning |-> FALSE,
                        timestamp |-> now]}

\* parse_gpgsv never returns a record
parse_gpgsv(sentence, now) == {}

\* parse_nmea_gps(data) at time now
parse_nmea_gps(data, now) ==
    LET nmea_sentence == Strip(DecodeAscii(data))
        sentence_type == Slice(nmea_sentence, 1, IF Len(nmea_sentence) < 6
                                                 THEN Len(nmea_sentence) ELSE 6)
    IN  IF \/ nmea_sentence = <<>>
           \/ nmea_sentence[1] # DOLLAR
           \/ \A k \in 1..Len(nmea_sentence) : nmea_sentence[k] # STAR
        THEN {}
        ELSE IF sentence_type = GPGGA_TYPE THEN parse_gpgga(nmea_sentence, now)
        ELSE IF sentence_type = GPRMC_TYPE THEN parse_gprmc(nmea_sentence, now)
        ELSE IF sentence_type = GPGSV_TYPE THEN parse_gpgsv(nmea_sentence, now)
        ELSE {}

\* parse_gps_message(data) at time now: the length check, then the NMEA
\* parser for a payload that starts with '$', else the binary layout
parse_gps_message(data, now) ==
    IF Len(data) < GPS_MIN_LEN THEN {}
    ELSE IF data[1] = DOLLAR THEN parse_nmea_gps(data, now)
    ELSE parse_gps_binary(data, now)

\* --------------------------------------------------- battery, ESC, modes
BATTERY_MIN_LEN == 16
ESC_MIN_LEN == 16
FLIGHT_MODE_MIN_LEN == 8
GPS_ENHANCED_MIN_LEN == 16
CELL_WARNING_LIMIT == 360

\* parse_battery_status(data) at time now. voltage and current are carried
\* in hundredths, estimated_flight_time (remaining / (current * 1000) * 60
\* minutes) as Rat(remaining * 6, current in hundredths), voltage_per_cell
\* as Rat(voltage in hundredths, 100 * cells).
parse_battery_status(data, now) ==
    IF Len(data) < BATTERY_MIN_LEN THEN {}
    ELSE LET voltage == U16(Slice(data, 0, 2))
             current == I16(Slice(data, 2, 4))
             cells == data[9]
             remaining_capacity == U16(Slice(data, 9, 11))
         IN  {[voltage |-> voltage,
               current |-> current,
               consumption_mah |-> U32(Slice(data, 4, 8)),
               cells |-> cells,
               remaining_capacity |-> remaining_capacity,
               estimated_flight_time |->
                   IF current > 10 THEN Rat(remaining_capacity * 6, current)
                   ELSE Zero,
               voltage_per_cell |->
                   IF cells > 0 THEN Rat(voltage, VOLT_SCALE * cells) ELSE Zero,
               timestamp |-> now]}

\* one ESC of parse_esc_status: temperature, voltage and current bytes (the
\* last two in tenths)
EscRecord(data, i) ==
    [temperature |-> data[3 * i + 1], voltage |-> data[3 * i + 2],
     current |-> data[3 * i + 3], rpm |-> 0]

\* parse_esc_status(data) at time now: esc_1..esc_4 from bytes 0..11
parse_esc_status(data, now) ==
    IF Len(data) < ESC_MIN_LEN THEN {}
    ELSE {[esc_status |-> [i \in 1..4 |-> EscRecord(data, i - 1)],
           timestamp |-> now]}

\* flight_modes of parse_flight_mode_status
flight_modes(mode_id) ==
    CASE mode_id = 0 -> "MANUAL"
      [] mode_id = 1 -> "STABILIZE"
      [] mode_id = 2 -> "ALT_HOLD"
      [] mode_id = 3 -> "AUTO"
      [] mode_id = 4 -> "RTL"
      [] mode_id = 5 -> "LAND"
      [] OTHER -> "UNKNOWN"

\* arming_states of parse_flight_mode_status
arming_states(k) ==
    CASE k = 0 -> "STANDBY"
      [] k = 1 -> "ARMING"
      [] k = 2 -> "ARMED"
      [] k = 3 -> "DISARMING"
      [] OTHER -> "UNKNOWN"

\* the arming state taken from bits 0-1 of the byte
arming_index_low(arming_state) == arming_state % 4

\* "(arming_state >> 1) & 0x03"
arming_index(arming_state) == (arming_state \div 2) % 4

\* parse_flight_mode_status(data) at time now
parse_flight_mode_status(data, now) ==
    IF Len(data) < FLIGHT_MODE_MIN_LEN THEN {}
    ELSE LET mode_id == data[1]
             arming_state == data[2]
         IN  {[flight_mode |-> flight_modes(mode_id),
               armed_status |-> (arming_state % 2 # 0),
               arming_state |-> arming_states(arming_index(arming_state)),
               timestamp |-> now]}

\* parse_gps_enhanced_status(data) at time now, with the position
\* navigation_data holds. hdop and vdop are carried in hundredths, home_alt
\* in tenths, the home coordinates as Rat(raw, 10^7). distance_to_home is
\* {} for 0.0 and else the set of the two positions the code computes it
\* from (sqrt(lat_diff**2 + lon_diff**2) * 111000): nan or inf when a
\* position stored from an NMEA sentence is nan or inf, which differs from
\* 0 like any other value. (The OverflowError of lat_diff**2 needs a
\* finite difference above 1.3e154, beyond the values carried here.)
parse_gps_enhanced_status(data, now, current_lat, current_lon) ==
    IF Len(data) < GPS_ENHANCED_MIN_LEN THEN {}
    ELSE LET home_lat == I32(Slice(data, 6, 10))
             home_lon == I32(Slice(data, 10, 14))
         IN  {[fix_type |-> data[1],
               satellites_visible |-> data[2],
               hdop |-> U16(Slice(data, 2, 4)),
               vdop |-> U16(Slice(data, 4, 6)),
               home_position_set |-> (home_lat # 0 /\ home_lon # 0),
               home_lat |-> Rat(home_lat, COORD_SCALE),
               home_lon |-> Rat(home_lon, COORD_SCALE),
               home_alt |-> I16(Slice(data, 14, 16)),
               distance_to_home |->
                   IF /\ current_lat # Zero /\ current_lon # Zero
                      /\ home_lat # 0 /\ home_lon # 0
                   THEN {[from_lat |-> current_lat, from_lon |-> current_lon,
                          to_lat |-> Rat(home_lat, COORD_SCALE),
                          to_lon |-> Rat(home_lon, COORD_SCALE)]}
                   ELSE {},
               bearing_to_home |-> 0,
               timestamp |-> now]}

\* ------------------------------------------- what a record does to latest_data
\* Each operator is the block of process_fc_message that follows a parser
\* returning a record: latest_data after it.

\* the AHRS block; data_rate_ahrs is what parse_ahrs_message left there
store_ahrs(ld, ahrs_data, data_rate_ahrs) ==
    [ld EXCEPT
        !.ahrs = {ahrs_data},
        !.flight_data =
            [roll_angle |-> ahrs_data.roll_angle,
             pitch_angle |-> ahrs_data.pitch_angle,
             yaw_angle |-> ahrs_data.yaw_angle,
             barometric_altitude |-> ahrs_data.altitude,
             roll_setpoint |-> ahrs_data.roll_setpoint,
             pitch_setpoint |-> ahrs_data.pitch_setpoint,
             yaw_setpoint |-> ahrs_data.yaw_setpoint,
             altitude_setpoint |-> ahrs_data.altitude_setpoint],
        !.system_status.data_rate_ahrs = data_rate_ahrs,
        !.system_status.last_ahrs_update = ahrs_data.timestamp]

\* the GPS block of the binary path (message id 0x11)
store_gps(ld, gps_data) ==
    [ld EXCEPT
        !.gps = {gps_data},
        !.navigation_data.gps_latitude = gps_data.latitude,
        !.navigation_data.gps_longitude = gps_data.longitude,
        !.navigation_data.gps_fix = gps_data.gps_fix,
        !.navigation_data.gps_satellites = gps_data.gps_satellites,
        !.power_system.battery_voltage = gps_data.battery_voltage,
        !.power_system.battery_percentage = gps_data.battery_percentage,
        !.power_system.low_battery_warning = gps_data.low_battery_warning,
        !.remote_control.ibus_swa = gps_data.swa,
        !.remote_control.ibus_swc = gps_data.swc,
        !.remote_control.failsafe_status = gps_data.failsafe,
        !.remote_control.failsafe_triggered = gps_data.failsafe_triggered,
        !.system_status.last_gps_update = gps_data.timestamp,
        !.battery_voltage = gps_data.battery_voltage,
        !.switches = [swa |-> gps_data.swa, swc |-> gps_data.swc,
                      failsafe |-> gps_data.failsafe]]

\* the GPS block of the NMEA entry as it would be if it kept the time of
\* the GPS update as the binary block does
store_nmea_gps_stamped(ld, gps_data) ==
    [ld EXCEPT
        !.gps = {gps_data},
        !.navigation_data.gps_latitude = gps_data.latitude,
        !.navigation_data.gps_longitude = gps_data.longitude,
        !.navigation_data.gps_altitude = {gps_data.altitude},
        !.navigation_data.gps_fix = gps_data.gps_fix,
        !.navigation_data.gps_satellites = gps_data.gps_satellites,
        !.power_system.battery_voltage = gps_data.battery_voltage,
        !.power_system.battery_percentage = gps_data.battery_percentage,
        !.power_system.low_battery_warning = gps_data.low_battery_warning,
        !.remote_control.swa = {gps_data.swa},
        !.remote_control.swc = {gps_data.swc},
        !.remote_control.failsafe = {gps_data.failsafe},
        !.remote_control.failsafe_triggered = gps_data.failsafe_triggered,
        !.system_status.last_gps_update = gps_data.timestamp]

\* the GPS block of the NMEA entry (message_id given): it adds the keys
\* gps_altitude, swa, swc and failsafe and leaves last_gps_update alone
store_nmea_gps(ld, gps_data) ==
    [ld EXCEPT
        !.gps = {gps_data},
        !.navigation_data.gps_latitude = gps_data.latitude,
        !.navigation_data.gps_longitude = gps_data.longitude,
        !.navigation_data.gps_altitude = {gps_data.altitude},
        !.navigation_data.gps_fix = gps_data.gps_fix,
        !.navigation_data.gps_satellites = gps_data.gps_satellites,
        !.power_system.battery_voltage = gps_data.battery_voltage,
        !.power_system.battery_percentage = gps_data.battery_percentage,
        !.power_system.low_battery_warning = gps_data.low_battery_warning,
        !.remote_control.swa = {gps_data.swa},
        !.remote_control.swc = {gps_data.swc},
        !.remote_control.failsafe = {gps_data.failsafe},
        !.remote_control.failsafe_triggered = gps_data.failsafe_triggered]

\* an acknowledgement stored under every axis
store_pid_gain_all(ld, pid_data) ==
    [ld EXCEPT !.pid_gains =
        [g \in DOMAIN ld.pid_gains |->
            {[p |-> pid_data.p, i |-> pid_data.i, d |-> pid_data.d]}]]

\* the PID acknowledgement block: the entry of the axis is replaced
store_pid_gain(ld, pid_data) ==
    [ld EXCEPT !.pid_gains[pid_data.type] =
        {[p |-> pid_data.p, i |-> pid_data.i, d |-> pid_data.d]}]

\* cell counts for which voltage / cells, computed in doubles, comes out
\* just below 3.6 when the voltage is exactly 3.60 V times the cell count
CellsRoundingBelow ==
    {9, 13, 18, 21, 26, 31, 36, 37, 41, 42, 47, 52, 57, 62, 67, 72, 74, 77,
     79, 82, 84, 89, 94, 99, 104, 109, 114, 119, 124, 129, 134, 139, 143,
     144, 148, 149, 153, 154, 158, 159, 163, 164, 168, 169, 173, 178}

\* "battery_data.get('voltage_per_cell', 4.0) < 3.6"
cell_voltage_low(voltage, cells) ==
    IF cells = 0 THEN TRUE
    ELSE \/ voltage < CELL_WARNING_LIMIT * cells
         \/ voltage = CELL_WARNING_LIMIT * cells /\ cells \in CellsRoundingBelow

\* update_battery_telemetry
update_battery_telemetry(ld, battery_data) ==
    [ld EXCEPT
        !.drone_telemetry.battery_cells = battery_data.cells,
        !.drone_telemetry.voltage_per_cell = battery_data.voltage_per_cell,
        !.drone_telemetry.battery_current = battery_data.current,
        !.drone_telemetry.consumption_mah = battery_data.consumption_mah,
        !.drone_telemetry.estimated_flight_time = battery_data.estimated_flight_time,
        !.power_system.battery_voltage = battery_data.voltage,
        !.power_system.battery_percentage =
            cell_percentage(battery_data.voltage),
        !.power_system.low_battery_warning =
            cell_voltage_low(battery_data.voltage, battery_data.cells)]

\* update_esc_telemetry
update_esc_telemetry(ld, esc_data) ==
    [ld EXCEPT !.drone_telemetry.esc_status = esc_data.esc_status]

\* update_flight_mode_telemetry
update_flight_mode_telemetry(ld, flight_mode_data) ==
    [ld EXCEPT
        !.drone_telemetry.flight_mode = flight_mode_data.flight_mode,
        !.drone_telemetry.armed_status = flight_mode_data.armed_status,
        !.drone_telemetry.arming_state = flight_mode_data.arming_state,
        !.flight_mode = flight_mode_data.flight_mode]

\* update_gps_enhanced_telemetry
update_gps_enhanced_telemetry(ld, gps_enhanced_data) ==
    LET g == gps_enhanced_data
        seen == g.satellites_visible > 0
    IN  [ld EXCEPT
            !.drone_telemetry.gps_status =
                [fix_type |-> g.fix_type, hdop |-> g.hdop, vdop |-> g.vdop,
                 satellites_visible |-> g.satellites_visible,
                 home_position_set |-> g.home_position_set,
                 home_lat |-> g.home_lat, home_lon |-> g.home_lon,
                 home_alt |-> g.home_alt,
                 distance_to_home |-> g.distance_to_home,
                 bearing_to_home |-> g.bearing_to_home],
            !.navigation_data.gps_satellites =
                IF seen THEN g.satellites_visible ELSE @,
            !.navigation_data.gps_fix = IF seen THEN g.fix_type ELSE @]

\* the socketio events a block emits, in order
AHRS_EVENTS == <<"ahrs_data", "flight_data", "system_status">>
GPS_EVENTS == <<"gps_data", "navigation_data", "power_system",
                "remote_control", "system_status">>
fc_events(parser) ==
    CASE parser = "parse_ahrs_message" -> AHRS_EVENTS
      [] parser = "parse_gps_message" -> GPS_EVENTS
      [] parser = "parse_pid_gain_ack" -> <<"pid_gain_ack">>
      [] parser = "parse_flight_mode_status" -> <<"flight_mode_change">>
      [] OTHER -> <<>>

\* --------------------------------------------------------- read loop body
\* nmea_end of read_serial_data: one past the first LF that follows a CR,
\* searched from index 1; -1 when there is none
nmea_end(buf) ==
    LET ends == {j \in 2..Len(buf) : buf[j] = LF /\ buf[j - 1] = CR}
    IN  IF ends = {} THEN -1
        ELSE CHOOSE j \in ends : \A k \in ends : j <= k

\* fc_pos of read_serial_data: 0-based index of the first 0x46 0x43 pair in
\* the buffer; -1 when there is none
fc_pos(buf) ==
    LET hits == {i \in 0..(Len(buf) - 2) :
                    buf[i + 1] = SYNC_F /\ buf[i + 2] = SYNC_C}
    IN  IF hits = {} THEN -1
        ELSE CHOOSE i \in hits : \A k \in hits : i <= k

\* "if len(buffer) > 100: buffer = bytearray()"
overflow_guard(buf) == IF Len(buf) > BUFFER_LIMIT THEN <<>> ELSE buf

\* binary_branch with the resynchronisation step dropping the 20 bytes it
\* looked at instead of the oldest byte
binary_branch_drop20(buf) ==
    IF SubSeq(buf, 1, 2) = <<SYNC_F, SYNC_C>>
    THEN [buffer |-> SliceFrom(buf, FRAME_LEN),
          out |-> <<[kind |-> "binary", message |-> SubSeq(buf, 1, FRAME_LEN)]>>]
    ELSE [buffer |-> SliceFrom(buf, FRAME_LEN), out |-> <<>>]

\* binary_branch with a candidate that fails the checksum costing only its
\* first byte: it is handed over, then the buffer is shifted by one
binary_branch_shift_rejected(buf) ==
    IF SubSeq(buf, 1, 2) = <<SYNC_F, SYNC_C>>
    THEN [buffer |-> IF fc_status(SubSeq(buf, 1, FRAME_LEN)) = "BadChecksum"
                     THEN SliceFrom(buf, 1) ELSE SliceFrom(buf, FRAME_LEN),
          out |-> <<[kind |-> "binary", message |-> SubSeq(buf, 1, FRAME_LEN)]>>]
    ELSE [buffer |-> SliceFrom(buf, 1), out |-> <<>>]

\* the 20-byte branch of the loop body, on a buffer of 20 bytes or more
binary_branch(buf) ==
    IF SubSeq(buf, 1, 2) = <<SYNC_F, SYNC_C>>
    THEN [buffer |-> SliceFrom(buf, FRAME_LEN),
          out |-> <<[kind |-> "binary", message |-> SubSeq(buf, 1, FRAME_LEN)]>>]
    ELSE IF fc_pos(buf) # -1 /\ fc_pos(buf) + FRAME_LEN <= Len(buf)
    THEN [buffer |-> SliceFrom(buf, fc_pos(buf) + FRAME_LEN),
          out |-> <<[kind |-> "binary",
                     message |-> Slice(buf, fc_pos(buf), fc_pos(buf) + FRAME_LEN)]>>]
    ELSE [buffer |-> SliceFrom(buf, 1), out |-> <<>>]

\* a loop body that only appends the byte read: no message is taken out and
\* the buffer is never cleared
demux_step_accumulate(buf0, byte_data) ==
    [buffer |-> Append(buf0, byte_data), out |-> <<>>]

\* a loop body that takes a sentence out as soon as the buffer holds a '$'
\* anywhere and a CR LF pair, not only with '$' at its head
demux_step_any_dollar(buf0, byte_data) ==
    LET buf == Append(buf0, byte_data)
    IN  IF (\E i \in 1..Len(buf) : buf[i] = DOLLAR) /\ nmea_end(buf) # -1
        THEN [buffer |-> SliceFrom(buf, nmea_end(buf)),
              out |-> <<[kind |-> "nmea", message |-> SubSeq(buf, 1, nmea_end(buf))]>>]
        ELSE IF Len(buf) >= FRAME_LEN
        THEN [buffer |-> overflow_guard(binary_branch(buf).buffer),
              out |-> binary_branch(buf).out]
        ELSE [buffer |-> overflow_guard(buf), out |-> <<>>]

\* one pass of the loop body after serial_port.read(1) returned byte_data:
\* the new buffer and the messages handed to process_fc_message
demux_step(buf0, byte_data) ==
    LET buf == Append(buf0, byte_data)
    IN  IF buf[1] = DOLLAR /\ nmea_end(buf) # -1
        THEN [buffer |-> SliceFrom(buf, nmea_end(buf)),
              out |-> <<[kind |-> "nmea", message |-> SubSeq(buf, 1, nmea_end(buf))]>>]
        ELSE IF Len(buf) >= FRAME_LEN
        THEN [buffer |-> overflow_guard(binary_branch(buf).buffer),
              out |-> binary_branch(buf).out]
        ELSE [buffer |-> overflow_guard(buf), out |-> <<>>]

\* ------------------------------------------------------------------ state
VARIABLES
    is_connected,        \* self.is_connected
    connection_status,   \* self.latest_data['connection_status']
    serial_port,         \* self.serial_port: None or a handle
    open_handles,        \* the handles whose is_open is True
    opened,              \* handles created so far (handles are 1..opened)
    gave_up,             \* a read loop ended on max_reconnect_attempts and
                         \* connect has not been invoked since
    response,            \* what the last /api/connect or /api/disconnect
                         \* request returned
    pc,                  \* position of each read-loop thread
    reconnect_attempts,  \* read_serial_data's local counter, per thread
    buffer,              \* read_serial_data's local buffer, per thread
    rx,                  \* bytes waiting at the port (in_waiting = Len(rx))
    dispatched,          \* the calls of process_fc_message, in order
    scenario,            \* the parts the byte stream was put together from
    snd,                 \* position and result of each sender context
    wire,                \* the chunks written to serial handles, in order
    sends,               \* send calls started so far
    tx_call,             \* SpecCodec: the last call of the send path
    tx_frame,            \* SpecCodec: the bytes that call wrote
    tx_ret,              \* SpecCodec: what that call returned
    gs_result,           \* SpecCodec: process_gs_message on tx_frame
    fc_message,          \* the message last handed to process_fc_message
    fc_call,             \* the outcome of its checks and the parser it called
    fc_parsed,           \* what that parser returned ({} for None)
    fc_calls,            \* messages handed to process_fc_message so far
    latest_data,         \* self.latest_data: the sections written from frames
    events,              \* the names of the socketio events emitted, in order
    last_ahrs_time,      \* self.last_ahrs_time ({} while the attribute is unset)
    clock,               \* datetime.now(), as a count of ticks
    test_mode,           \* self.test_mode
    test_thread,         \* position of self._test_data_thread ("none" while
                         \* no such thread is alive)
    connect_pc           \* position of the /api/connect request in progress

linkVars == <<is_connected, connection_status, serial_port, open_handles,
              opened, gave_up, response>>
readerVars == <<pc, reconnect_attempts, buffer>>
demuxVars == <<rx, dispatched, scenario>>
senderVars == <<snd, wire, sends>>
codecVars == <<tx_call, tx_frame, tx_ret, gs_result>>
fcVars == <<fc_message, fc_call, fc_parsed, fc_calls, latest_data, events,
            last_ahrs_time, clock>>
testVars == <<test_mode, test_thread>>
vars == <<linkVars, readerVars, demuxVars, senderVars, codecVars, fcVars,
          testVars, connect_pc>>

Readers == 1..MaxReaders
Senders == 1..MaxSenders

\* "self.serial_port and self.serial_port.is_open"
PortOpen == serial_port # None /\ serial_port \in open_handles

NoScenario == [garbage |-> <<>>, nmea |-> <<>>, frame |-> <<>>]
NoCall == [fn |-> "none", message_id |-> None, data |-> <<>>]
NoResult == [status |-> "none", message_id |-> None, data |-> <<>>]
IdleSender == [pc |-> "idle", fn |-> "none", h |-> None, ret |-> "none"]
NoResponse == [status |-> "none", message |-> "none"]
NoFcCall == [status |-> "none", parser |-> "none", message_id |-> None,
             data |-> <<>>]

\* self.latest_data as __init__ sets it, without connection_status (which is
\* the variable connection_status) and the sections no code path writes. A
\* dict that starts empty, or a key that update() adds later, is the empty
\* set until it is assigned and the set of its value afterwards. False is 0
\* where the code later stores an integer under the same key.
InitialLatestData ==
    [ahrs |-> {},
     gps |-> {},
     pid_gains |-> [g \in GainTypes |-> {}],
     battery_voltage |-> 0,
     switches |-> [swa |-> 0, swc |-> 0, failsafe |-> 0],
     flight_mode |-> "MANUAL",
     flight_data |-> [roll_angle |-> 0, pitch_angle |-> 0, yaw_angle |-> 0,
                      barometric_altitude |-> 0, roll_setpoint |-> 0,
                      pitch_setpoint |-> 0, yaw_setpoint |-> 0,
                      altitude_setpoint |-> 0],
     navigation_data |-> [gps_latitude |-> Zero, gps_longitude |-> Zero,
                          gps_fix |-> 0, gps_satellites |-> 0,
                          gps_altitude |-> {}],
     power_system |-> [battery_voltage |-> 0, battery_percentage |-> 0,
                       low_battery_warning |-> FALSE, total_voltage |-> {},
                       cell_voltage |-> {}],
     remote_control |-> [ibus_swa |-> 0, ibus_swc |-> 0, failsafe_status |-> 0,
                         failsafe_triggered |-> FALSE,
                         swa |-> {}, swc |-> {}, failsafe |-> {}],
     system_status |-> [data_rate_ahrs |-> Zero, data_rate_gps |-> Zero,
                        last_ahrs_update |-> None, last_gps_update |-> None,
                        connection_quality |-> 0],
     drone_telemetry |->
        [flight_mode |-> "MANUAL", armed_status |-> FALSE,
         arming_state |-> "STANDBY", battery_cells |-> 4,
         voltage_per_cell |-> Zero, battery_current |-> 0,
         consumption_mah |-> [lo |-> 0, hi |-> 0],
         estimated_flight_time |-> Zero,
         esc_status |-> [i \in 1..4 |-> [temperature |-> 0, voltage |-> 0,
                                         current |-> 0, rpm |-> 0]],
         gps_status |-> [fix_type |-> 0, hdop |-> 0, vdop |-> 0,
                         satellites_visible |-> 0, home_position_set |-> FALSE,
                         home_lat |-> Zero, home_lon |-> Zero, home_alt |-> 0,
                         distance_to_home |-> {}, bearing_to_home |-> 0]]]

\* nothing has been handed to process_fc_message yet
FcInit ==
    /\ fc_message = <<>>
    /\ fc_call = NoFcCall
    /\ fc_parsed = {}
    /\ fc_calls = 0
    /\ latest_data = InitialLatestData
    /\ events = <<>>
    /\ last_ahrs_time = {}
    /\ clock = 1

\* the session right after a successful connect: handle 1 open, read loop 1
\* started, nothing received or sent yet
ConnectedInit ==
    /\ is_connected = TRUE
    /\ connection_status = "Connected"
    /\ serial_port = 1
    /\ open_handles = {1}
    /\ opened = 1
    /\ gave_up = FALSE
    /\ response = [status |-> "success", message |-> "Connected"]
    /\ pc = [t \in Readers |-> IF t = 1 THEN "loop" ELSE "idle"]
    /\ reconnect_attempts = [t \in Readers |-> 0]
    /\ buffer = [t \in Readers |-> <<>>]
    /\ dispatched = <<>>
    /\ snd = [s \in Senders |-> IdleSender]
    /\ wire = <<>>
    /\ sends = 0
    /\ tx_call = NoCall
    /\ tx_frame = <<>>
    /\ tx_ret = "none"
    /\ gs_result = NoResult
    /\ FcInit
    /\ test_mode = TRUE
    /\ test_thread = "check"
    /\ connect_pc = "idle"

\* ------------------------------------------------------- SpecCodec: calls
\* Each run of SpecCodec makes one call of the send path (tx_call = NoCall
\* before it) and then decodes what was written.
\* payloads handed to send_message: every length 0..MaxPayloadLen, filled
\* with a constant byte or with a counting pattern
PayloadFill == {<<0, 0>>, <<255, 0>>, <<1, 1>>, <<DOLLAR, 7>>}
Payload(len, fill) == [i \in 1..len |-> (fill[1] + (i - 1) * fill[2]) % 256]
Payloads == {Payload(len, fill) : len \in 0..MaxPayloadLen, fill \in PayloadFill}
MessageIds == 0..255

\* "not self.is_connected" alone
flag_check_fails == ~is_connected

\* "if not self.is_connected or not self.serial_port" of send_message, and
\* the first two checks of send_pid_gain
first_check_fails == ~is_connected \/ serial_port = None

\* what serial_port.write does on an open port: it takes the bytes, or it
\* raises (the port is opened with write_timeout=1)
WriteOutcomes == {"written", "raises"}

\* send_message(message_id, data) run as a whole in the present session:
\* what it returns and the byte strings it hands to serial_port.write. The
\* second check reads serial_port.is_open outside the try; an exception of
\* the write is caught and answered with False.
send_message_call(message_id, data, write) ==
    IF first_check_fails
    THEN [ret |-> "False", writes |-> <<>>]
    ELSE IF serial_port = None
    THEN [ret |-> "raised", writes |-> <<>>]
    ELSE IF serial_port \notin open_handles
    THEN [ret |-> "False", writes |-> <<>>]
    ELSE IF write = "raises"
    THEN [ret |-> "False", writes |-> <<>>]
    ELSE [ret |-> "True", writes |-> <<send_message_frame(message_id, data)>>]

\* send_pid_gain(gain_type, p, i, d) run as a whole: the three connection
\* checks, the gain_map lookup, then send_message(message_id, data)
send_pid_gain_call(gain_type, p, i, d, write) ==
    IF first_check_fails
    THEN [ret |-> "False", writes |-> <<>>]
    ELSE IF serial_port = None
    THEN [ret |-> "raised", writes |-> <<>>]
    ELSE IF serial_port \notin open_handles
    THEN [ret |-> "False", writes |-> <<>>]
    ELSE IF gain_type \notin GainTypes
    THEN [ret |-> "False", writes |-> <<>>]
    ELSE send_message_call(gain_map(gain_type), send_pid_gain_data(p, i, d),
                           write)

\* the chunks a call's writes put on the wire (the caller is no sender
\* context: by is 0)
WireChunks(writes) ==
    [k \in 1..Len(writes) |->
        [by |-> 0, h |-> serial_port, bytes |-> writes[k], last |-> TRUE]]

\* the bytes a call wrote, all writes together
Written(writes) == IF writes = <<>> THEN <<>> ELSE writes[1]

\* send_message(message_id, data)
SendMessage(message_id, data) ==
    /\ tx_call = NoCall
    /\ \E write \in WriteOutcomes :
       LET r == send_message_call(message_id, data, write)
       IN  /\ tx_call' = [fn |-> "send_message", message_id |-> message_id,
                          data |-> data]
           /\ tx_frame' = Written(r.writes)
           /\ tx_ret' = r.ret
           /\ wire' = wire \o WireChunks(r.writes)
    /\ gs_result' = NoResult
    /\ UNCHANGED <<linkVars, readerVars, demuxVars, snd, sends, fcVars, testVars, connect_pc>>

\* send_pid_gain(gain_type, p, i, d); the message id and payload are only
\* built when the checks and the gain_map lookup pass
SendPidGain(gain_type, p, i, d) ==
    /\ tx_call = NoCall
    /\ \E write \in WriteOutcomes :
       LET r == send_pid_gain_call(gain_type, p, i, d, write)
       IN  /\ tx_call' = IF r.ret = "True"
                         THEN [fn |-> "send_pid_gain",
                               message_id |-> gain_map(gain_type),
                               data |-> send_pid_gain_data(p, i, d)]
                         ELSE [fn |-> "send_pid_gain", message_id |-> None,
                               data |-> <<>>]
           /\ tx_frame' = Written(r.writes)
           /\ tx_ret' = r.ret
           /\ wire' = wire \o WireChunks(r.writes)
    /\ gs_result' = NoResult
    /\ UNCHANGED <<linkVars, readerVars, demuxVars, snd, sends, fcVars, testVars, connect_pc>>

\* request_pid_gain(gain_type): send_message(0x10, [gain_type] + 15 zeros)
RequestPidGain(gain_type) ==
    /\ tx_call = NoCall
    /\ \E write \in WriteOutcomes :
       LET r == send_message_call(PID_REQUEST_ID,
                                  request_pid_gain_data(gain_type), write)
       IN  /\ tx_call' = [fn |-> "request_pid_gain", message_id |-> PID_REQUEST_ID,
                          data |-> request_pid_gain_data(gain_type)]
           /\ tx_frame' = Written(r.writes)
           /\ tx_ret' = r.ret
           /\ wire' = wire \o WireChunks(r.writes)
    /\ gs_result' = NoResult
    /\ UNCHANGED <<linkVars, readerVars, demuxVars, snd, sends, fcVars, testVars, connect_pc>>

\* the written frame handed to the station-to-controller decoder
GsDecode ==
    /\ tx_frame # <<>>
    /\ gs_result = NoResult
    /\ gs_result' = process_gs_message(tx_frame)
    /\ UNCHANGED <<linkVars, readerVars, demuxVars, senderVars,
                   tx_call, tx_frame, tx_ret, fcVars, testVars, connect_pc>>

CodecInit ==
    /\ ConnectedInit
    /\ rx = <<>>
    /\ scenario = NoScenario

CodecNext ==
    \/ /\ tx_call = NoCall
       /\ \E message_id \in MessageIds, data \in Payloads :
              SendMessage(message_id, data)
    \/ /\ tx_call = NoCall
       /\ \E gain_type \in GainTypes \cup {"altitude"}, p \in FloatValues,
             i \in {"0.0", "2.5"}, d \in {"0.0", "-1.0"} :
              SendPidGain(gain_type, p, i, d)
    \/ /\ tx_call = NoCall
       /\ \E gain_type \in 0..5 : RequestPidGain(gain_type)
    \/ GsDecode

SpecCodec == CodecInit /\ [][CodecNext]_vars

\* what the parser of a checked message returns at time now ({} for None,
\* and for a message that reached no parser)
fc_parse(r, now, ld) ==
    CASE r.parser = "parse_ahrs_message" -> parse_ahrs_message(r.data, now)
      [] r.parser = "parse_gps_message" -> parse_gps_message(r.data, now)
      [] r.parser = "parse_pid_gain_ack" ->
            parse_pid_gain_ack(r.message_id, r.data, now)
      [] r.parser = "parse_battery_status" -> parse_battery_status(r.data, now)
      [] r.parser = "parse_esc_status" -> parse_esc_status(r.data, now)
      [] r.parser = "parse_flight_mode_status" ->
            parse_flight_mode_status(r.data, now)
      [] r.parser = "parse_gps_enhanced_status" ->
            parse_gps_enhanced_status(r.data, now,
                                      ld.navigation_data.gps_latitude,
                                      ld.navigation_data.gps_longitude)
      [] OTHER -> {}

\* the time bookkeeping of parse_ahrs_message: data_rate_ahrs becomes
\* 1.0 / time_diff when last_ahrs_time is set and time has passed since
ahrs_data_rate(ld, last, now) ==
    IF last # {} /\ now - (CHOOSE t \in last : TRUE) > 0
    THEN Rat(1, now - (CHOOSE t \in last : TRUE))
    ELSE ld.system_status.data_rate_ahrs

\* latest_data after the block that follows parser returning record d
fc_store(parser, ld, d, last, now) ==
    CASE parser = "parse_ahrs_message" ->
            store_ahrs(ld, d, ahrs_data_rate(ld, last, now))
      [] parser = "parse_gps_message" -> store_gps(ld, d)
      [] parser = "parse_pid_gain_ack" -> store_pid_gain(ld, d)
      [] parser = "parse_battery_status" -> update_battery_telemetry(ld, d)
      [] parser = "parse_esc_status" -> update_esc_telemetry(ld, d)
      [] parser = "parse_flight_mode_status" ->
            update_flight_mode_telemetry(ld, d)
      [] parser = "parse_gps_enhanced_status" ->
            update_gps_enhanced_telemetry(ld, d)

\* the calls of process_fc_message the read loop makes: a frame as
\* process_fc_message(message), a sentence as
\* process_fc_message(nmea_data, message_id=0x11)
fc_checked(call) ==
    IF call.kind = "nmea"
    THEN [status |-> "nmea", parser |-> "parse_gps_message",
          message_id |-> GPS_ID, data |-> call.message]
    ELSE process_fc_message(call.message)

\* the session's telemetry after the block that follows the parser of a
\* call: r is the outcome of the checks, parsed what the parser returned
fc_outcome(st, call, r, parsed, now) ==
    [fc_message |-> call.message,
     fc_call |-> r,
     fc_parsed |-> parsed,
     fc_calls |-> st.fc_calls + 1,
     latest_data |->
        IF parsed = {} THEN st.latest_data
        ELSE IF call.kind = "nmea"
        THEN store_nmea_gps(st.latest_data, CHOOSE d \in parsed : TRUE)
        ELSE fc_store(r.parser, st.latest_data, CHOOSE d \in parsed : TRUE,
                      st.last_ahrs_time, now),
     events |->
        IF parsed = {} THEN st.events
        ELSE IF call.kind = "nmea" THEN st.events \o GPS_EVENTS
        ELSE st.events \o fc_events(r.parser),
     last_ahrs_time |->
        IF parsed # {} /\ call.kind = "binary"
                       /\ r.parser = "parse_ahrs_message"
        THEN {now} ELSE st.last_ahrs_time]

\* one call of process_fc_message made by the read loop at time now
fc_handle(st, call, now) ==
    CHOOSE res \in
        UNION {{fc_outcome(st, call, r, parsed, now) :
                    parsed \in {fc_parse(r, now, st.latest_data)}} :
               r \in {fc_checked(call)}} : TRUE

RECURSIVE fc_handle_all(_, _, _)
\* the calls of one pass of the loop body, in order
fc_handle_all(st, out, now) ==
    IF out = <<>> THEN st
    ELSE fc_handle_all(fc_handle(st, Head(out), now), Tail(out), now)

\* ------------------------------------------------- read_serial_data thread
\* Positions of a read-loop thread:
\*   idle            not started, or ended
\*   loop            at "while self.is_connected"
\*   body            inside the try, at the port check of line 1473
\*   except_invalid  in the handler, message holds "handle is invalid"
\*   except_other    in the handler, any other message
\*   rc_close        in reconnect_serial, before closing the old handle
\*   rc_open         in reconnect_serial, before probing the ports
\*   exit, break     left the loop (condition false / max attempts), before
\*                   the two assignments that follow the loop

\* "while self.is_connected:"
LoopCheck(t) ==
    /\ pc[t] = "loop"
    /\ pc' = [pc EXCEPT ![t] = IF is_connected THEN "body" ELSE "exit"]
    /\ UNCHANGED <<linkVars, reconnect_attempts, buffer, demuxVars,
                   senderVars, codecVars, fcVars, testVars, connect_pc>>

\* "if not self.serial_port or not self.serial_port.is_open:" taken:
\* reconnect_serial is called
PortDown(t) ==
    /\ pc[t] = "body"
    /\ ~PortOpen
    /\ pc' = [pc EXCEPT ![t] = "rc_close"]
    /\ UNCHANGED <<linkVars, reconnect_attempts, buffer, demuxVars,
                   senderVars, codecVars, fcVars, testVars, connect_pc>>

\* in_waiting > 0: read(1), extend the buffer, run the loop body on it and
\* hand each message it takes out to process_fc_message, which writes
\* latest_data and emits the events before the pass ends. The pass takes no
\* time on the clock.
ReadData(t) ==
    /\ pc[t] = "body"
    /\ PortOpen
    /\ Len(rx) > 0
    /\ \E r \in {demux_step(buffer[t], Head(rx))} :
         /\ buffer' = [buffer EXCEPT ![t] = r.buffer]
         /\ dispatched' = dispatched \o r.out
         /\ IF r.out = <<>>
            THEN UNCHANGED <<fc_message, fc_call, fc_parsed, fc_calls,
                             latest_data, events, last_ahrs_time>>
            ELSE \E st \in {fc_handle_all(
                               [fc_calls |-> fc_calls,
                                latest_data |-> latest_data,
                                events |-> events,
                                last_ahrs_time |-> last_ahrs_time],
                               r.out, clock)} :
                   /\ fc_message' = st.fc_message
                   /\ fc_call' = st.fc_call
                   /\ fc_parsed' = st.fc_parsed
                   /\ fc_calls' = st.fc_calls
                   /\ latest_data' = st.latest_data
                   /\ events' = st.events
                   /\ last_ahrs_time' = st.last_ahrs_time
    /\ rx' = Tail(rx)
    /\ pc' = [pc EXCEPT ![t] = "loop"]
    /\ UNCHANGED <<linkVars, reconnect_attempts, scenario, senderVars,
                   codecVars, clock, testVars, connect_pc>>

\* in_waiting == 0: time.sleep(0.001)
ReadIdle(t) ==
    /\ pc[t] = "body"
    /\ PortOpen
    /\ rx = <<>>
    /\ pc' = [pc EXCEPT ![t] = "loop"]
    /\ UNCHANGED <<linkVars, reconnect_attempts, buffer, demuxVars,
                   senderVars, codecVars, fcVars, testVars, connect_pc>>

\* the port raises an I/O error inside the try; the handler tells the errors
\* apart by their text only
ErrorKinds == {"invalid", "other"}
ReadError(t, kind) ==
    /\ pc[t] = "body"
    /\ PortOpen
    /\ pc' = [pc EXCEPT ![t] = IF kind = "invalid" THEN "except_invalid"
                                ELSE "except_other"]
    /\ UNCHANGED <<linkVars, reconnect_attempts, buffer, demuxVars,
                   senderVars, codecVars, fcVars, testVars, connect_pc>>

\* where the except clause goes for a message that names an invalid handle
\* ("handle is invalid" in str(e)): into reconnect_serial
after_invalid_error == "rc_close"
\* where it goes for every other message: time.sleep(0.1), next iteration
after_other_error == "loop"

HandleError(t) ==
    /\ pc[t] \in {"except_invalid", "except_other"}
    /\ pc' = [pc EXCEPT ![t] = IF pc[t] = "except_invalid"
                                THEN after_invalid_error
                                ELSE after_other_error]
    /\ UNCHANGED <<linkVars, reconnect_attempts, buffer, demuxVars,
                   senderVars, codecVars, fcVars, testVars, connect_pc>>

\* reconnect_serial, first part: close the existing handle if any and set
\* serial_port to None
ReconnectClose(t) ==
    /\ pc[t] = "rc_close"
    /\ open_handles' = open_handles \ {serial_port}
    /\ serial_port' = None
    /\ pc' = [pc EXCEPT ![t] = "rc_open"]
    /\ UNCHANGED <<is_connected, connection_status, opened, gave_up, response,
                   reconnect_attempts, buffer, demuxVars, senderVars, codecVars, fcVars,
                   testVars, connect_pc>>

\* ReconnectOpen with the caller keeping its counter and its buffer after a
\* reconnect_serial that returned True
ReconnectOpenKeepCount(t) ==
    /\ pc[t] = "rc_open"
    /\ opened < MaxHandles
    /\ opened' = opened + 1
    /\ serial_port' = opened + 1
    /\ open_handles' = open_handles \cup {opened + 1}
    /\ is_connected' = TRUE
    /\ connection_status' = "Connected"
    /\ pc' = [pc EXCEPT ![t] = "loop"]
    /\ UNCHANGED <<gave_up, response, reconnect_attempts, buffer, demuxVars,
                   senderVars, codecVars, fcVars, testVars, connect_pc>>

\* reconnect_serial, second part, a port opens: the new handle is installed,
\* is_connected and connection_status are set, True is returned; the caller
\* resets its counter and buffer and continues
ReconnectOpen(t) ==
    /\ pc[t] = "rc_open"
    /\ opened < MaxHandles
    /\ opened' = opened + 1
    /\ serial_port' = opened + 1
    /\ open_handles' = open_handles \cup {opened + 1}
    /\ is_connected' = TRUE
    /\ connection_status' = "Connected"
    /\ reconnect_attempts' = [reconnect_attempts EXCEPT ![t] = 0]
    /\ buffer' = [buffer EXCEPT ![t] = <<>>]
    /\ pc' = [pc EXCEPT ![t] = "loop"]
    /\ UNCHANGED <<gave_up, response, demuxVars, senderVars, codecVars, fcVars,
                   testVars, connect_pc>>

\* what the caller of reconnect_serial does with a False result: count the
\* attempt, break at max_reconnect_attempts, else sleep(2) and continue
after_failed_attempt(attempts) ==
    IF attempts >= max_reconnect_attempts THEN "break" ELSE "loop"

\* reconnect_serial, second part, no port is listed or none opens: False
ReconnectFail(t) ==
    /\ pc[t] = "rc_open"
    /\ reconnect_attempts' = [reconnect_attempts EXCEPT ![t] = @ + 1]
    /\ pc' = [pc EXCEPT ![t] = after_failed_attempt(reconnect_attempts[t] + 1)]
    /\ UNCHANGED <<linkVars, buffer, demuxVars, senderVars, codecVars, fcVars,
                   testVars, connect_pc>>

\* after the loop: is_connected = False, connection_status = 'Disconnected',
\* and the thread ends
LoopExit(t) ==
    /\ pc[t] \in {"exit", "break"}
    /\ is_connected' = FALSE
    /\ connection_status' = "Disconnected"
    /\ gave_up' = (gave_up \/ pc[t] = "break")
    /\ pc' = [pc EXCEPT ![t] = "idle"]
    /\ reconnect_attempts' = [reconnect_attempts EXCEPT ![t] = 0]
    /\ buffer' = [buffer EXCEPT ![t] = <<>>]
    /\ UNCHANGED <<serial_port, open_handles, opened, response, demuxVars,
                   senderVars, codecVars, fcVars, testVars, connect_pc>>

\* ------------------------------------------------------ request handlers
\* start_test_data_generator: a _test_data_loop thread is started unless one
\* is alive; a new thread begins at its loop condition
start_test_data_generator(thread) ==
    IF thread = "none" THEN "check" ELSE thread

\* Positions of the /api/connect request (one request is in progress at a
\* time):
\*   idle       no request, or the request has returned
\*   logging    the read-loop thread is started (line 277), the generator
\*              is not yet
\*   generator  start_test_data_generator has returned (line 288)

\* /api/connect, the port opens: the handle is stored over whatever
\* serial_port held, the flags are set, test_mode is cleared and a new
\* read-loop thread is started; the request has not returned yet
ConnectOk(t) ==
    /\ connect_pc = "idle"
    /\ pc[t] = "idle"
    /\ opened < MaxHandles
    /\ opened' = opened + 1
    /\ serial_port' = opened + 1
    /\ open_handles' = open_handles \cup {opened + 1}
    /\ is_connected' = TRUE
    /\ connection_status' = "Connected"
    /\ gave_up' = FALSE
    /\ pc' = [pc EXCEPT ![t] = "loop"]
    /\ test_mode' = FALSE
    /\ connect_pc' = "logging"
    /\ UNCHANGED <<response, reconnect_attempts, buffer, demuxVars, senderVars,
                   codecVars, fcVars, test_thread>>

\* /api/connect goes on: start_data_logging (log files only), then
\* start_test_data_generator
ConnectStartGenerator ==
    /\ connect_pc = "logging"
    /\ test_thread' = start_test_data_generator(test_thread)
    /\ connect_pc' = "generator"
    /\ UNCHANGED <<linkVars, readerVars, demuxVars, senderVars, codecVars,
                   fcVars, test_mode>>

\* /api/connect sets test_mode and returns status 'success'
ConnectReturn ==
    /\ connect_pc = "generator"
    /\ test_mode' = TRUE
    /\ response' = [status |-> "success", message |-> "Connected"]
    /\ connect_pc' = "idle"
    /\ UNCHANGED <<is_connected, connection_status, serial_port, open_handles,
                   opened, gave_up, readerVars, demuxVars, senderVars,
                   codecVars, fcVars, test_thread>>

\* the messages of the errors serial.Serial raises on a port that does not
\* open
ConnectErrors == {"could not open port", "Access is denied"}

\* /api/connect, serial.Serial raises e: the except clause returns status
\* 'error' with str(e); nothing else is assigned
ConnectFail(e) ==
    /\ connect_pc = "idle"
    /\ gave_up' = FALSE
    /\ response' = [status |-> "error", message |-> e]
    /\ UNCHANGED <<is_connected, connection_status, serial_port, open_handles,
                   opened, readerVars, demuxVars, senderVars, codecVars, fcVars,
                   testVars, connect_pc>>

\* /api/connect, int(baudrate) raises before the try: the request ends
\* with the exception and nothing of the session is assigned (save_settings
\* catches its own errors)
ConnectRaises ==
    /\ connect_pc = "idle"
    /\ gave_up' = FALSE
    /\ response' = [status |-> "raised", message |-> "none"]
    /\ UNCHANGED <<is_connected, connection_status, serial_port, open_handles,
                   opened, readerVars, demuxVars, senderVars, codecVars, fcVars,
                   testVars, connect_pc>>

\* the modes /api/set_flight_mode is called with
FlightModeRequests == {"AUTO", "RTL"}

\* /api/set_flight_mode: latest_data['flight_mode'] = mode, connected or
\* not; the command itself is only logged
SetFlightMode(mode) ==
    /\ latest_data' = [latest_data EXCEPT !.flight_mode = mode]
    /\ UNCHANGED <<linkVars, readerVars, demuxVars, senderVars, codecVars,
                   fc_message, fc_call, fc_parsed, fc_calls, events,
                   last_ahrs_time, clock, testVars, connect_pc>>

\* /api/disconnect: close the handle if it is open, clear the flags; the
\* closed handle stays in serial_port
Disconnect ==
    /\ open_handles' = open_handles \ {serial_port}
    /\ is_connected' = FALSE
    /\ connection_status' = "Disconnected"
    /\ response' = [status |-> "success", message |-> "Disconnected"]
    /\ test_mode' = FALSE
    /\ UNCHANGED <<serial_port, opened, gave_up, readerVars, demuxVars,
                   senderVars, codecVars, fcVars, test_thread, connect_pc>>

\* --------------------------------------------------------- sender contexts
\* A request context calls send_message (through request_pid_gain) or
\* send_terminal_message. Positions: idle, check1 (line 806 / 886), check2
\* (line 810), write (line 829 / 898), writing (inside serial_port.write,
\* part of the bytes handed to the driver).
SendFns == {"send_message", "send_terminal_message"}

\* the bytes sender s writes
sender_bytes(s, fn) ==
    IF fn = "send_message"
    THEN send_message_frame(PID_REQUEST_ID, request_pid_gain_data(s))
    ELSE <<84, 48 + s>>

\* the call is made
SendCall(s, fn) ==
    /\ snd[s].pc = "idle"
    /\ sends < MaxSends
    /\ sends' = sends + 1
    /\ snd' = [snd EXCEPT ![s] = [pc |-> "check1", fn |-> fn, h |-> None,
                                  ret |-> "none"]]
    /\ UNCHANGED <<linkVars, readerVars, demuxVars, wire, codecVars, fcVars,
                   testVars, connect_pc>>

\* "if not self.is_connected or not self.serial_port: return False"
SendCheck1(s) ==
    /\ snd[s].pc = "check1"
    /\ snd' = [snd EXCEPT ![s] =
                 IF ~is_connected \/ serial_port = None
                 THEN [@ EXCEPT !.pc = "idle", !.ret = "False"]
                 ELSE [@ EXCEPT !.pc = IF snd[s].fn = "send_message"
                                       THEN "check2" ELSE "write"]]
    /\ UNCHANGED <<linkVars, readerVars, demuxVars, wire, sends, codecVars, fcVars,
                   testVars, connect_pc>>

\* "if not self.serial_port.is_open: return False", outside any try: with
\* serial_port None by now the attribute access raises
SendCheck2(s) ==
    /\ snd[s].pc = "check2"
    /\ snd' = [snd EXCEPT ![s] =
                 IF serial_port = None
                 THEN [@ EXCEPT !.pc = "idle", !.ret = "raised"]
                 ELSE IF serial_port \notin open_handles
                 THEN [@ EXCEPT !.pc = "idle", !.ret = "False"]
                 ELSE [@ EXCEPT !.pc = "write"]]
    /\ UNCHANGED <<linkVars, readerVars, demuxVars, wire, sends, codecVars, fcVars,
                   testVars, connect_pc>>

\* a statement inside the try raises: "self.serial_port.write(...)" with
\* the handle missing or closed or the write timing out on an open port, or,
\* in send_terminal_message, bytes.fromhex / message.encode('ascii') on a
\* message that is no hex string / not ASCII; the exception is caught,
\* False is returned and nothing is written
SendWriteFails(s) ==
    /\ snd[s].pc = "write"
    /\ snd' = [snd EXCEPT ![s] = [@ EXCEPT !.pc = "idle", !.ret = "False"]]
    /\ UNCHANGED <<linkVars, readerVars, demuxVars, wire, sends, codecVars, fcVars,
                   testVars, connect_pc>>

\* the write on an open handle takes all bytes at once
SendWriteAll(s) ==
    /\ snd[s].pc = "write"
    /\ PortOpen
    /\ wire' = Append(wire, [by |-> s, h |-> serial_port,
                             bytes |-> sender_bytes(s, snd[s].fn), last |-> TRUE])
    /\ snd' = [snd EXCEPT ![s] = [@ EXCEPT !.pc = "idle", !.ret = "True"]]
    /\ UNCHANGED <<linkVars, readerVars, demuxVars, sends, codecVars, fcVars,
                   testVars, connect_pc>>

\* the write on an open handle takes the first half of the bytes and is
\* still in progress (the driver accepts a partial write); no lock is held
\* around the call, so other contexts enter write meanwhile
SendWriteBegin(s) ==
    /\ snd[s].pc = "write"
    /\ PortOpen
    /\ LET b == sender_bytes(s, snd[s].fn)
       IN  wire' = Append(wire, [by |-> s, h |-> serial_port,
                                 bytes |-> SubSeq(b, 1, Len(b) \div 2),
                                 last |-> FALSE])
    /\ snd' = [snd EXCEPT ![s] = [@ EXCEPT !.pc = "writing", !.h = serial_port]]
    /\ UNCHANGED <<linkVars, readerVars, demuxVars, sends, codecVars, fcVars,
                   testVars, connect_pc>>

\* the write in progress hands over the rest, or fails when its handle was
\* closed meanwhile
SendWriteEnd(s) ==
    /\ snd[s].pc = "writing"
    /\ IF snd[s].h \in open_handles
       THEN /\ LET b == sender_bytes(s, snd[s].fn)
               IN  wire' = Append(wire, [by |-> s, h |-> snd[s].h,
                                         bytes |-> SubSeq(b, Len(b) \div 2 + 1, Len(b)),
                                         last |-> TRUE])
            /\ snd' = [snd EXCEPT ![s] = [@ EXCEPT !.pc = "idle", !.h = None,
                                                  !.ret = "True"]]
       ELSE /\ wire' = wire
            /\ snd' = [snd EXCEPT ![s] = [@ EXCEPT !.pc = "idle", !.h = None,
                                                  !.ret = "False"]]
    /\ UNCHANGED <<linkVars, readerVars, demuxVars, sends, codecVars, fcVars,
                   testVars, connect_pc>>

\* ------------------------------------------------------- Spec: the session
\* what the controller has sent when a session begins: nothing, or one byte
SessionStreams == {<<>>, <<DOLLAR>>}

\* the state after KMUGroundStation.__init__
Init ==
    /\ is_connected = FALSE
    /\ connection_status = "Disconnected"
    /\ serial_port = None
    /\ open_handles = {}
    /\ opened = 0
    /\ gave_up = FALSE
    /\ response = NoResponse
    /\ pc = [t \in Readers |-> "idle"]
    /\ reconnect_attempts = [t \in Readers |-> 0]
    /\ buffer = [t \in Readers |-> <<>>]
    /\ rx \in SessionStreams
    /\ dispatched = <<>>
    /\ scenario = NoScenario
    /\ snd = [s \in Senders |-> IdleSender]
    /\ wire = <<>>
    /\ sends = 0
    /\ tx_call = NoCall
    /\ tx_frame = <<>>
    /\ tx_ret = "none"
    /\ gs_result = NoResult
    /\ FcInit
    /\ test_mode = FALSE
    /\ test_thread = "none"
    /\ connect_pc = "idle"

\* GET /api/test_data: on a connected station start_test_data_generator is
\* called; otherwise the route answers 400 and assigns nothing. test_mode
\* is not touched.
TriggerTestData ==
    /\ test_thread' = IF is_connected
                      THEN start_test_data_generator(test_thread)
                      ELSE test_thread
    /\ UNCHANGED <<linkVars, readerVars, demuxVars, senderVars, codecVars,
                   fcVars, test_mode, connect_pc>>

\* the socketio events one pass of _broadcast_loop emits, in order
BROADCAST_EVENTS == <<"telemetry_update", "ahrs_data", "flight_data",
                      "drone_telemetry", "power_system", "navigation_data",
                      "system_status">>

\* the broadcast passes that have emitted so far: 'telemetry_update' is
\* emitted by _broadcast_loop only
broadcasts(emitted) ==
    Cardinality({k \in 1..Len(emitted) : emitted[k] = "telemetry_update"})

\* one pass of _broadcast_loop (the thread run() starts) while is_connected
\* holds: the flattened telemetry and the sections of latest_data are
\* emitted; latest_data always has the key 'navigation_data'. A pass made
\* while the station is not connected only sleeps.
BroadcastPass ==
    /\ is_connected
    /\ broadcasts(events) < MaxBroadcasts
    /\ events' = events \o BROADCAST_EVENTS
    /\ UNCHANGED <<linkVars, readerVars, demuxVars, senderVars, codecVars,
                   fc_message, fc_call, fc_parsed, fc_calls, latest_data,
                   last_ahrs_time, clock, testVars, connect_pc>>

ReaderNext(t) ==
    \/ LoopCheck(t)
    \/ PortDown(t)
    \/ ReadData(t)
    \/ ReadIdle(t)
    \/ \E kind \in ErrorKinds : ReadError(t, kind)
    \/ HandleError(t)
    \/ ReconnectClose(t)
    \/ ReconnectOpen(t)
    \/ ReconnectFail(t)
    \/ LoopExit(t)

SenderNext(s) ==
    \/ \E fn \in SendFns : SendCall(s, fn)
    \/ SendCheck1(s)
    \/ SendCheck2(s)
    \/ SendWriteFails(s)
    \/ SendWriteAll(s)
    \/ SendWriteBegin(s)
    \/ SendWriteEnd(s)

Next ==
    \/ \E t \in Readers : ConnectOk(t)
    \/ ConnectStartGenerator
    \/ ConnectReturn
    \/ \E e \in ConnectErrors : ConnectFail(e)
    \/ ConnectRaises
    \/ Disconnect
    \/ TriggerTestData
    \/ BroadcastPass
    \/ \E t \in Readers : ReaderNext(t)

Spec == Init /\ [][Next]_vars

\* ------------------------------------------- SpecSend: the send path
\* The request contexts of the send path in a connected session, interleaved
\* with the read-loop thread (thread 1), its reconnects and its end after
\* max_reconnect_attempts failures. One byte waits at the port.
SendNext ==
    \/ ReaderNext(1)
    \/ \E s \in Senders : SenderNext(s)

SendInit ==
    /\ ConnectedInit
    /\ scenario = NoScenario
    /\ rx = <<DOLLAR>>

SpecSend == SendInit /\ [][SendNext]_vars

\* ------------------------------------------- SpecCall: one call, any session
\* One call of send_message, send_pid_gain or request_pid_gain, run as a
\* whole, in whatever state connect, disconnect and read-loop thread 1 with
\* its reconnects have brought the session to.
CallNext ==
    \/ ConnectOk(1)
    \/ ConnectStartGenerator
    \/ ConnectReturn
    \/ Disconnect
    \/ ReaderNext(1)
    \/ /\ tx_call = NoCall
       /\ \E message_id \in {0, PID_REQUEST_ID, 255}, data \in {<<>>, Zeros(16)} :
              SendMessage(message_id, data)
    \/ /\ tx_call = NoCall
       /\ \E gain_type \in {"roll_inner", "yaw_rate", "altitude"} :
              SendPidGain(gain_type, "1.0", "0.0", "2.5")
    \/ /\ tx_call = NoCall
       /\ \E gain_type \in {0, 5} : RequestPidGain(gain_type)

SpecCall == Init /\ [][CallNext]_vars

\* --------------------------------------- SpecLive: a scheduled read loop
\* Connect, disconnect and read-loop thread 1. The thread is scheduled
\* fairly: whenever it can take a step it eventually takes one (which step,
\* where the port decides, is left open). Requests are not forced to come.
LiveNext ==
    \/ ConnectOk(1)
    \/ ConnectStartGenerator
    \/ ConnectReturn
    \/ \E e \in ConnectErrors : ConnectFail(e)
    \/ ConnectRaises
    \/ Disconnect
    \/ ReaderNext(1)

SpecLive == Init /\ [][LiveNext]_vars /\ WF_vars(ReaderNext(1))

\* --------------------------------------------- SpecDemux: the byte stream
\* A valid inbound frame as the controller builds it: 'FC', message_id, 16
\* payload bytes and the checksum process_fc_message expects.
InboundFrame(message_id, payload) ==
    LET body == <<SYNC_F, SYNC_C, message_id>> \o payload
    IN  Append(body, (255 - Sum(body)) % 256)

\* the frames fed to the read loop: an all-zero AHRS frame, and a GPS frame
\* whose payload holds '$', CR LF and the sync pair
Frames ==
    { InboundFrame(16, Zeros(16)),
      InboundFrame(17, <<1, DOLLAR, 2, CR, LF, 3, SYNC_F, SYNC_C>> \o Zeros(8)) }

\* garbage: a freely chosen part of up to MaxGarbageVar bytes over the bytes
\* the loop body looks at and one it does not, with a run of 0, 17 or 47
\* zero bytes before or after it: prefixes of 0 to 3, 17 to 20 and 47 to 50
\* bytes, the free bytes at their front or at their back
GarbageBytes == {DOLLAR, CR, LF, SYNC_F, SYNC_C, 0}
FillerLens == {0, 17, 47}
RECURSIVE SeqsUpTo(_, _)
SeqsUpTo(S, n) ==
    IF n = 0 THEN {<<>>}
    ELSE LET shorter == SeqsUpTo(S, n - 1)
         IN  shorter \cup {Append(q, b) : q \in shorter, b \in S}
Garbage ==
    LET free == SeqsUpTo(GarbageBytes, MaxGarbageVar)
    IN  {g \o Zeros(k) : g \in free, k \in FillerLens}
          \cup {Zeros(k) \o g : g \in free, k \in FillerLens}

\* NMEA sentences: '$', a body of letters, CR LF, in total lengths around
\* the 20-byte frame size and up to the 100-byte buffer bound, and the
\* GPGGA sentence of the protocol description (62 bytes)
NmeaLens == {3, 12, 20, 21, 100}
Sentence(len) == <<DOLLAR>> \o [i \in 1..(len - 3) |-> 65] \o <<CR, LF>>
GPGGA ==
    <<36, 71, 80, 71, 71, 65, 44, 49, 50, 51, 53, 49, 57, 44, 52, 56, 48, 55,
      46, 48, 51, 56, 44, 78, 44, 48, 49, 49, 51, 49, 46, 48, 48, 48, 44, 69,
      44, 49, 44, 48, 56, 44, 48, 46, 57, 44, 53, 52, 53, 46, 52, 44, 77, 44,
      44, 44, 44, 42, 52, 55, 13, 10>>
Sentences == {Sentence(len) : len \in NmeaLens} \cup {GPGGA}

\* a stream is garbage followed by a frame, or a sentence followed by a frame
Scenarios ==
    {[garbage |-> g, nmea |-> <<>>, frame |-> f] : g \in Garbage, f \in Frames}
      \cup {[garbage |-> <<>>, nmea |-> n, frame |-> f] : n \in Sentences, f \in Frames}

\* a connected session whose port has the whole stream waiting
DemuxInit ==
    /\ ConnectedInit
    /\ scenario \in Scenarios
    /\ rx = scenario.garbage \o scenario.nmea \o scenario.frame

\* thread 1 runs the read loop; the port raises no error and nobody
\* disconnects
DemuxNext ==
    \/ LoopCheck(1)
    \/ ReadData(1)
    \/ ReadIdle(1)

SpecDemux == DemuxInit /\ [][DemuxNext]_vars

\* --------------------------------------- SpecFrames: back-to-back frames
\* The read loop of a connected session, its buffer empty, with a stream of
\* 1 to MaxFrames valid inbound frames waiting at the port. The frames
\* carry the bytes the loop body looks at: '$' and CR LF in the payload, '$'
\* as message id, sync pairs throughout the payload.
BackToBackFrames ==
    Frames \cup
    { InboundFrame(DOLLAR, <<DOLLAR, CR, LF>> \o Zeros(13)),
      InboundFrame(0, [i \in 1..16 |-> IF i % 2 = 1 THEN SYNC_F ELSE SYNC_C]) }

RECURSIVE FrameStreams(_)
FrameStreams(k) ==
    IF k = 0 THEN {<<>>}
    ELSE {s \o f : s \in FrameStreams(k - 1), f \in BackToBackFrames}

FramesInit ==
    /\ ConnectedInit
    /\ scenario \in {[garbage |-> <<>>, nmea |-> <<>>, frame |-> s] :
                        s \in UNION {FrameStreams(k) : k \in 1..MaxFrames}}
    /\ rx = scenario.frame

SpecFrames == FramesInit /\ [][DemuxNext]_vars

\* ------------------------------------- SpecRetry: one session's read loop
\* The read loop of one connected session with a frame waiting at the port:
\* it reads bytes, the port raises errors, reconnect_serial succeeds or
\* fails. Nobody calls connect or disconnect.
RetryInit ==
    /\ ConnectedInit
    /\ scenario \in {[garbage |-> <<>>, nmea |-> <<>>, frame |-> f] :
                        f \in Frames}
    /\ rx = scenario.frame

RetryNext == ReaderNext(1)

SpecRetry == RetryInit /\ [][RetryNext]_vars

\* ------------------------------------------ SpecFc: process_fc_message
\* process_fc_message(message), binary path, called when the clock shows
\* clock + tick: the checks, the parser call and, when the parser returns a
\* record, the writes to latest_data and the events of its block.
\* (log_ahrs_data and log_telemetry_data write to log files only.)
ProcessFcMessage(message, tick) ==
    /\ fc_calls < MaxFcCalls
    /\ \E r \in {process_fc_message(message)} :
         \E parsed \in {fc_parse(r, clock + tick, latest_data)} :
           /\ fc_message' = message
           /\ fc_call' = r
           /\ fc_parsed' = parsed
           /\ clock' = clock + tick
           /\ IF parsed = {}
              THEN UNCHANGED <<latest_data, events, last_ahrs_time>>
              ELSE /\ latest_data' =
                        fc_store(r.parser, latest_data,
                                 CHOOSE d \in parsed : TRUE,
                                 last_ahrs_time, clock + tick)
                   /\ events' = events \o fc_events(r.parser)
                   /\ last_ahrs_time' =
                        IF r.parser = "parse_ahrs_message"
                        THEN {clock + tick} ELSE last_ahrs_time
    /\ fc_calls' = fc_calls + 1
    /\ UNCHANGED <<linkVars, readerVars, demuxVars, senderVars, codecVars,
                   testVars, connect_pc>>

\* a 16-bit value as the controller sends it: two's complement, low byte
\* first
LE16(v) == <<(v % 65536) % 256, (v % 65536) \div 256>>

\* an AHRS payload: roll, pitch, yaw, altitude, then the four setpoints
AhrsPayload(roll_raw, pitch_raw, yaw_raw) ==
    LE16(roll_raw) \o LE16(pitch_raw) \o LE16(yaw_raw) \o LE16(-5)
        \o LE16(32767) \o LE16(-32768) \o LE16(65535) \o LE16(1)

\* raw angles at and around the limits and at the ends of the 16-bit ranges
RollRaws == {0, 18000, 18001, -18000, -18001, 32767, -32768}
PitchRaws == {0, 18000, 18001, -18001}
YawRaws == {0, 36000, 36001, 65535}
AhrsFrames ==
    {InboundFrame(AHRS_ID, AhrsPayload(r, p, y)) :
        r \in RollRaws, p \in PitchRaws, y \in YawRaws}

\* valid frames with an id no branch handles
UnknownFrames ==
    {InboundFrame(32, Zeros(16)), InboundFrame(255, [i \in 1..16 |-> 255])}

\* valid frames and every message that differs from one of them in the
\* message id or in one payload byte (0-based positions 2..18)
BaseFrames ==
    {InboundFrame(AHRS_ID, Zeros(16)),
     InboundFrame(AHRS_ID, AhrsPayload(18000, -18000, 36000)),
     InboundFrame(255, [i \in 1..16 |-> 255])}
ReplaceAt(frame, pos, value) == [frame EXCEPT ![pos + 1] = value]
Variations ==
    {ReplaceAt(f, pos, value) : f \in BaseFrames, pos \in 2..18, value \in 0..255}

\* 19 bytes with the checksum that goes with them
WithChecksum(body) == Append(body, (255 - Sum(body)) % 256)

\* 20-byte messages that do not start with 'FC': station frames as
\* send_message writes them (checksum correct), frames with one sync byte
\* wrong or the two swapped (checksum correct), and one with a wrong
\* checksum as well
BadSyncMessages ==
    {send_message_frame(AHRS_ID, Zeros(16)),
     send_message_frame(PID_REQUEST_ID, request_pid_gain_data(3)),
     WithChecksum(<<SYNC_F, 0, AHRS_ID>> \o Zeros(16)),
     WithChecksum(<<0, SYNC_C, AHRS_ID>> \o Zeros(16)),
     WithChecksum(<<SYNC_C, SYNC_F, AHRS_ID>> \o Zeros(16)),
     <<SYNC_G, SYNC_S>> \o Zeros(18)}

\* messages of 19 and 21 bytes cut from or built on a valid frame
BadLengthMessages ==
    {SubSeq(InboundFrame(AHRS_ID, Zeros(16)), 1, 19),
     Append(InboundFrame(AHRS_ID, Zeros(16)), 0),
     <<SYNC_F, SYNC_C>>}

\* a signed 32-bit value as the controller sends it, low byte first
LE32(v) ==
    <<v % 256, (v \div 256) % 256, (v \div 65536) % 256,
      (v \div 16777216) % 256>>

\* a GPS payload: latitude, longitude, battery voltage, the two switches
\* and the fail-safe byte, then three unused bytes
GpsPayload(latitude_raw, longitude_raw, battery, swa, swc, failsafe) ==
    LE32(latitude_raw) \o LE32(longitude_raw) \o LE16(battery)
        \o <<swa, swc, failsafe>> \o Zeros(3)

\* raw coordinates at and around the limits, and a position in Seoul
LatRaws == {0, 375665000, 900000000, 900000001, -900000000, -900000001,
            2147483647, -2147483647 - 1}
LonRaws == {0, 1269780000, 1800000000, 1800000001, -1800000000, -1800000001}
GpsFrames ==
    {InboundFrame(GPS_ID, GpsPayload(lat, lon, bat, 1, 2, fs)) :
        lat \in LatRaws, lon \in LonRaws, bat \in {349, 420}, fs \in {0, 1}}
      \cup {InboundFrame(GPS_ID, <<DOLLAR, 71, 80, 82, 77, 67>>
                                    \o [k \in 1..9 |-> COMMA] \o <<STAR>>)}

\* the four bytes of a single with the given sign, exponent and fraction
F32Bytes(sign, exp, mant) ==
    <<mant % 256, (mant \div 256) % 256, (exp % 2) * 128 + mant \div 65536,
      sign * 128 + exp \div 2>>

\* gains as the controller echoes them: 0.0, 2.5, 1000.0 and -1000.0, the
\* singles next above 1000.0 in magnitude, 1024.0, the largest finite
\* single, the two infinities and a NaN
PidValues ==
    {F32Bytes(0, 0, 0), F32Bytes(0, 128, 2097152),
     F32Bytes(0, 136, 7995392), F32Bytes(1, 136, 7995392),
     F32Bytes(0, 136, 7995393), F32Bytes(1, 136, 7995393),
     F32Bytes(0, 137, 0), F32Bytes(0, 254, 8388607),
     F32Bytes(0, 255, 0), F32Bytes(1, 255, 0), F32Bytes(0, 255, 4194304)}
PidPayload(p, i, d) == p \o i \o d \o Zeros(4)
PidFrames ==
    {InboundFrame(id, PidPayload(p, F32Bytes(0, 127, 0), F32Bytes(1, 127, 0))) :
        id \in 0..PID_ACK_MAX_ID, p \in PidValues}
      \cup {InboundFrame(4, PidPayload(F32Bytes(0, 127, 0), v, F32Bytes(0, 0, 0))) :
                v \in PidValues}
      \cup {InboundFrame(5, PidPayload(F32Bytes(0, 127, 0), F32Bytes(0, 0, 0), v)) :
                v \in PidValues}

\* flight-mode frames: every arming byte under the six modes, a mode id
\* next above them and the largest
FlightModeFrames ==
    {InboundFrame(FLIGHT_MODE_ID, <<mode_id, b>> \o Zeros(14)) :
        mode_id \in (0..6) \cup {255}, b \in 0..255}

\* battery frames: voltage and current in hundredths, consumption,
\* cell count, remaining capacity
BatteryPayload(voltage, current, cells, remaining) ==
    LE16(voltage) \o LE16(current) \o <<1, 2, 3, 200>> \o <<cells>>
        \o LE16(remaining) \o Zeros(5)
BatteryFrames ==
    {InboundFrame(BATTERY_ID, BatteryPayload(v, c, n, 1500)) :
        v \in {0, 1439, 1440, 3240, 1680}, c \in {-100, 10, 11, 1250},
        n \in {0, 4, 9}}

\* ESC frames: twelve status bytes counting up from a start value
EscFrames ==
    {InboundFrame(ESC_ID, [k \in 1..16 |-> (start + k) % 256]) :
        start \in {0, 100, 250}}

\* enhanced-GPS frames: fix type, satellites in view, hdop, vdop, home
\* position and altitude
GpsEnhancedPayload(fix, sats, home_lat, home_lon) ==
    <<fix, sats>> \o LE16(120) \o LE16(65535) \o LE32(home_lat)
        \o LE32(home_lon) \o LE16(-15)
GpsEnhancedFrames ==
    {InboundFrame(GPS_ENHANCED_ID, GpsEnhancedPayload(fix, sats, lat, lon)) :
        fix \in {0, 3}, sats \in {0, 12}, lat \in {0, 375600000},
        lon \in {0, -1800000001}}

\* one valid frame under each message id 0..255
RoutingFrames ==
    {InboundFrame(id, [k \in 1..16 |-> k]) : id \in 0..255}

FcInputs ==
    AhrsFrames \cup UnknownFrames \cup Variations \cup BadSyncMessages
        \cup BadLengthMessages \cup GpsFrames \cup PidFrames
        \cup FlightModeFrames \cup BatteryFrames \cup EscFrames
        \cup GpsEnhancedFrames \cup RoutingFrames

\* the messages a run continues with after its first
FollowUps ==
    {InboundFrame(AHRS_ID, AhrsPayload(18000, 0, 0)),
     InboundFrame(AHRS_ID, AhrsPayload(18001, 0, 0)),
     send_message_frame(AHRS_ID, Zeros(16)),
     InboundFrame(32, Zeros(16)),
     InboundFrame(GPS_ID, GpsPayload(-900000000, 1800000000, 350, 0, 1, 2)),
     InboundFrame(GPS_ID, GpsPayload(900000001, 0, 350, 0, 1, 2)),
     InboundFrame(GPS_ID, GpsPayload(0, -1800000001, 350, 0, 1, 2)),
     InboundFrame(2, PidPayload(F32Bytes(0, 128, 2097152), F32Bytes(0, 127, 0),
                                F32Bytes(0, 0, 0))),
     InboundFrame(2, PidPayload(F32Bytes(0, 128, 2097152), F32Bytes(0, 255, 1),
                                F32Bytes(0, 0, 0))),
     InboundFrame(0, PidPayload(F32Bytes(0, 127, 0), F32Bytes(0, 127, 0),
                                F32Bytes(0, 137, 0))),
     InboundFrame(GPS_ENHANCED_ID, GpsEnhancedPayload(3, 12, 375600000, 1269700000)),
     InboundFrame(FLIGHT_MODE_ID, <<3, 5>> \o Zeros(14))}

Ticks == {0, 1}

FcSessionInit ==
    /\ ConnectedInit
    /\ rx = <<>>
    /\ scenario = NoScenario

\* a run hands process_fc_message one message of FcInputs and then one of
\* FollowUps
FcNext ==
    \/ /\ fc_calls = 0
       /\ \E message \in FcInputs, tick \in Ticks : ProcessFcMessage(message, tick)
    \/ /\ fc_calls > 0
       /\ \E message \in FollowUps, tick \in Ticks : ProcessFcMessage(message, tick)
    \/ \E mode \in FlightModeRequests : SetFlightMode(mode)

SpecFc == FcSessionInit /\ [][FcNext]_vars

\* ------------------------------------------------- SpecPid: the PID gains
\* The messages of a PID session: the acknowledgement frames, an AHRS
\* frame, an acknowledgement with its last byte off by one, and the frame
\* send_message writes for a gain (sync 'GS'), as it would come back on a
\* looped line.
PidInputs ==
    PidFrames
      \cup {InboundFrame(AHRS_ID, AhrsPayload(18000, 0, 0)),
            [InboundFrame(3, PidPayload(F32Bytes(0, 127, 0), F32Bytes(0, 127, 0),
                                        F32Bytes(0, 127, 0)))
                EXCEPT ![20] = (@ + 1) % 256],
            send_message_frame(1, PidPayload(F32Bytes(0, 127, 0),
                                             F32Bytes(0, 127, 0),
                                             F32Bytes(0, 127, 0)))}

\* up to MaxFcCalls messages arrive; a collaborator calls send_pid_gain or
\* request_pid_gain at some point
PidNext ==
    \/ \E message \in PidInputs : ProcessFcMessage(message, 1)
    \/ /\ tx_call = NoCall
       /\ \E gain_type \in {"roll_inner", "pitch_inner", "altitude"} :
              SendPidGain(gain_type, "2.5", "1.0", "0.0")
    \/ /\ tx_call = NoCall
       /\ RequestPidGain(2)

SpecPid == FcSessionInit /\ [][PidNext]_vars

\* ------------------------------------- SpecNmea: the NMEA entry of the decoder
\* process_fc_message(message, message_id) with message_id given, as the
\* read loop calls it for a sentence: parse_gps_message when the id is 0x11
\* and, when that returns a record, the writes to latest_data and the five
\* events; the frame checks are not made on this path.
ProcessNmeaMessage(message, message_id, tick) ==
    /\ fc_calls < MaxFcCalls
    /\ \E parsed \in {IF message_id = GPS_ID
                      THEN parse_gps_message(message, clock + tick)
                      ELSE {}} :
         /\ fc_message' = message
         /\ fc_call' = [status |-> "nmea",
                        parser |-> IF message_id = GPS_ID
                                   THEN "parse_gps_message" ELSE "none",
                        message_id |-> message_id, data |-> message]
         /\ fc_parsed' = parsed
         /\ clock' = clock + tick
         /\ IF parsed = {}
            THEN UNCHANGED <<latest_data, events>>
            ELSE /\ latest_data' =
                      store_nmea_gps(latest_data, CHOOSE d \in parsed : TRUE)
                 /\ events' = events \o GPS_EVENTS
    /\ fc_calls' = fc_calls + 1
    /\ UNCHANGED <<linkVars, readerVars, demuxVars, senderVars, codecVars,
                   last_ahrs_time, testVars, connect_pc>>

RECURSIVE Dec(_, _)
\* n in decimal, zero-padded to width characters
Dec(n, width) ==
    IF width = 0 THEN <<>> ELSE Dec(n \div 10, width - 1) \o <<48 + (n % 10)>>

\* a coordinate field: degrees (degw digits), minutes (2 digits), '.', and
\* thousandths of a minute
CoordField(deg, degw, min, frac) ==
    Dec(deg, degw) \o Dec(min, 2) \o <<DOT>> \o Dec(frac, 3)

RECURSIVE Join(_)
\* ','.join(fields)
Join(fields) ==
    IF Len(fields) = 1 THEN fields[1]
    ELSE fields[1] \o <<COMMA>> \o Join(Tail(fields))

\* positions as <<degrees, minutes, thousandths of a minute>>: 48 deg
\* 7.038 min, the latitude limit written as 90 deg 0 min and as 89 deg
\* 60 min, positions next to it, 99 deg 59.999 min
LatParts ==
    {<<48, 7, 38>>, <<90, 0, 0>>, <<90, 0, 1>>, <<89, 59, 999>>,
     <<89, 60, 0>>, <<99, 59, 999>>}
\* 11 deg 31 min, the longitude limit, positions next to it, 999 deg
LonParts ==
    {<<11, 31, 0>>, <<180, 0, 0>>, <<180, 0, 1>>, <<179, 59, 999>>,
     <<999, 0, 0>>}
\* latitude fields: empty, "0", "48" (no minutes) and the positions
LatFields ==
    {<<>>, <<48>>, <<52, 56>>}
      \cup {CoordField(q[1], 2, q[2], q[3]) : q \in LatParts}
\* longitude fields: empty and the positions
LonFields ==
    {<<>>} \cup {CoordField(q[1], 3, q[2], q[3]) : q \in LonParts}

\* $GPGGA,time,lat,N/S,lon,E/W,fix,sats,hdop,alt,M,,,,*47 CR LF
GgaSentence(lat, ns, lon, ew) ==
    Join(<<<<DOLLAR>> \o GPGGA_TYPE, Dec(123519, 6), lat, ns, lon, ew,
           <<49>>, Dec(8, 2), <<48, DOT, 57>>, <<53, 52, 53, DOT, 52>>,
           <<77>>, <<>>, <<>>, <<>>, <<STAR, 52, 55>>>>) \o <<CR, LF>>

\* $GPRMC,time,A,lat,N/S,lon,E/W,speed,course,date,,,*6A CR LF
RmcSentence(lat, ns, lon, ew) ==
    Join(<<<<DOLLAR>> \o GPRMC_TYPE, Dec(123519, 6), <<CHAR_A>>, lat, ns,
           lon, ew, <<48, DOT, 53>>, <<56, 52, DOT, 52>>, Dec(230394, 6),
           <<>>, <<>>, <<STAR, 54, 65>>>>) \o <<CR, LF>>

\* direction fields: north and east, south and west
Hemispheres == {<<<<78>>, <<69>>>>, <<<<CHAR_S>>, <<CHAR_W>>>>}

\* what is handed to the NMEA entry: GPGGA and GPRMC sentences over the
\* fields above in both hemispheres, the GPGGA sentence of the protocol
\* description, a GPGGA sentence cut after its tenth field, the all-empty
\* 20-byte GPRMC sentence, a GPGSV sentence and a sentence without '*'
NmeaInputs ==
    {GgaSentence(lat, h[1], lon, h[2]) :
        lat \in LatFields, lon \in LonFields, h \in Hemispheres}
      \cup {RmcSentence(lat, h[1], lon, h[2]) :
                lat \in LatFields, lon \in LonFields, h \in Hemispheres}
      \cup {GPGGA,
            SubSeq(GPGGA, 1, 50) \o <<STAR, 52, 55, CR, LF>>,
            <<DOLLAR>> \o GPRMC_TYPE \o [k \in 1..11 |-> COMMA]
                \o <<STAR, CR, LF>>,
            <<DOLLAR>> \o GPGSV_TYPE \o [k \in 1..19 |-> COMMA]
                \o <<STAR, 55, 53, CR, LF>>,
            Sentence(20)}

\* binary frames of the same session: a position in Seoul, a latitude next
\* above the limit, the position with a battery at 3.40 V, and a battery
\* frame of 13.20 V on four cells
NmeaSessionFrames ==
    {InboundFrame(GPS_ID, GpsPayload(375665000, 1269780000, 420, 1, 2, 0)),
     InboundFrame(GPS_ID, GpsPayload(900000001, 1269780000, 420, 1, 2, 0)),
     InboundFrame(GPS_ID, GpsPayload(375665000, 1269780000, 340, 1, 2, 0)),
     InboundFrame(BATTERY_ID, BatteryPayload(1320, 1000, 4, 1500))}

\* the sentences a run continues with after its first; one has the
\* latitude 481e1 (48 degrees and 10 minutes) and a longitude of nan degrees
NmeaFollowUps ==
    {GPGGA,
     GgaSentence(CoordField(99, 2, 59, 999), <<78>>,
                 CoordField(11, 3, 31, 0), <<69>>),
     RmcSentence(CoordField(48, 2, 7, 38), <<CHAR_S>>,
                 CoordField(999, 3, 0, 0), <<CHAR_W>>),
     GgaSentence(<<52, 56>>, <<78>>, CoordField(11, 3, 31, 0), <<69>>),
     GgaSentence(<<52, 56, 49, 101, 49>>, <<78>>,
                 <<110, 97, 110>> \o CoordField(0, 1, 31, 0), <<69>>),
     Sentence(20)}

\* a run hands the NMEA entry one sentence of NmeaInputs and then sentences
\* of NmeaFollowUps; binary GPS frames arrive in between
NmeaNext ==
    \/ /\ fc_calls = 0
       /\ \E message \in NmeaInputs : ProcessNmeaMessage(message, GPS_ID, 1)
    \/ /\ fc_calls > 0
       /\ \E message \in NmeaFollowUps : ProcessNmeaMessage(message, GPS_ID, 1)
    \/ ProcessNmeaMessage(GPGGA, AHRS_ID, 1)
    \/ \E message \in NmeaSessionFrames : ProcessFcMessage(message, 1)

SpecNmea == FcSessionInit /\ [][NmeaNext]_vars

\* ------------------------------------ SpecTest: the test data generator
\* connect starts a _test_data_loop thread next to the read loop. The thread
\* runs while is_connected holds; each pass generates telemetry and writes it
\* into latest_data unless last_ahrs_update is less than two seconds old.
\* A tick of the clock is one second; the thread's sleep of 0.1 s takes no
\* tick.
STALE_AFTER == 2
TEST_LAT_CENTER == 375665000
TEST_LON_CENTER == 1269780000
TEST_CELLS == 4
TEST_VOLTAGE_EMPTY == 1100
TEST_VOLTAGE_SPAN == 580
TEST_FLIGHT_MINUTES == 15
TEST_ARMED_ABOVE == 1200
TEST_LOW_BATTERY_BELOW == 1250
TEST_DATA_RATE_AHRS == 20
TEST_DATA_RATE_GPS == 1
TEST_CONNECTION_QUALITY == 85
MAH_PER_AMPERE == 1000

\* The part of generate_test_data that the time fixes, at the full seconds
\* of a run that begins at 2026-01-01T00:00:00 UTC (t = 1767225600 + clock):
\* roll 12 sin(0.8 t) + 3 sin(2.4 t), pitch 8 cos(0.42 t) + 2 sin(1.2 t) and
\* yaw (0.8 t) % 360 + 2 sin(0.3 t) in hundredths of a degree, altitude
\* 45 + 15 sin(0.05 t) in tenths of a metre, current 12 + 2.5 sin(0.4 t) in
\* millionths of an ampere, and the offsets 0.0015 sin(0.1 t) and
\* 0.0015 cos(0.1 t) from the centre position in units of 1e-7 degree. The
\* entry for clock value c is TEST_WAVE[c + 1].
TEST_WAVE ==
    <<[roll |-> -1049, pitch |-> -372, yaw |-> -74, altitude |-> 459,
       current |-> 10787588, lat_offset |-> -1894, lon_offset |-> 14880],
      [roll |-> -432, pitch |-> 98, yaw |-> 64, altitude |-> 452,
       current |-> 11734694, lat_offset |-> -399, lon_offset |-> 14995],
      [roll |-> 960, pitch |-> 621, yaw |-> 204, altitude |-> 444,
       current |-> 12723685, lat_offset |-> 1100, lon_offset |-> 14960],
      [roll |-> 924, pitch |-> 865, yaw |-> 339, altitude |-> 437,
       current |-> 13598422, lat_offset |-> 2588, lon_offset |-> 14775],
      [roll |-> 1062, pitch |-> 768, yaw |-> 466, altitude |-> 430,
       current |-> 14220804, lat_offset |-> 4050, lon_offset |-> 14443],
      [roll |-> 318, pitch |-> 567, yaw |-> 580, altitude |-> 422,
       current |-> 14492569, lat_offset |-> 5472, lon_offset |-> 13966],
      [roll |-> -1002, pitch |-> 482, yaw |-> 678, altitude |-> 415,
       current |-> 14370813, lat_offset |-> 6839, lon_offset |-> 13350],
      [roll |-> -911, pitch |-> 438, yaw |-> 758, altitude |-> 408,
       current |-> 13874757, lat_offset |-> 8138, lon_offset |-> 12601],
      [roll |-> -1068, pitch |-> 194, yaw |-> 820, altitude |-> 400,
       current |-> 13082719, lat_offset |-> 9355, lon_offset |-> 11725],
      [roll |-> -200, pitch |-> -298, yaw |-> 866, altitude |-> 393,
       current |-> 12119743, lat_offset |-> 10479, lon_offset |-> 10733]>>

\* what generate_test_data draws from random in one call: uniform(-1.5, 1.5)
\* for roll and uniform(-1.0, 1.0) for pitch in hundredths of a degree,
\* uniform(-2, 2) for the altitude in tenths, uniform(-0.5, 0.5) for the
\* current in millionths, uniform(-0.0002, 0.0002) for each offset in units
\* of 1e-7 degree and randint(10, 14) for the satellites; the yaw has no
\* random part
TestDraws ==
    {[roll_angle |-> -150, pitch_angle |-> -100, altitude |-> -20,
      battery_current |-> -500000, lat_offset |-> -2000, lon_offset |-> -2000,
      gps_satellites |-> 10],
     [roll_angle |-> 0, pitch_angle |-> 0, altitude |-> 0,
      battery_current |-> 0, lat_offset |-> 0, lon_offset |-> 0,
      gps_satellites |-> 12],
     [roll_angle |-> 150, pitch_angle |-> 100, altitude |-> 20,
      battery_current |-> 500000, lat_offset |-> 2000, lon_offset |-> 2000,
      gps_satellites |-> 14]}

\* "battery_voltage = max(11.5, base_voltage + voltage_noise)": base_voltage
\* is 16.2 - (t / 7200) * 0.3 with t the seconds since 1970, far below 11.5
\* at any date the program runs, so the voltage is always the floor
TEST_VOLTAGE_FLOOR == 1150

\* the generator's current is carried in millionths of an ampere
TEST_CURRENT_SCALE == 1000000

\* "battery_current = max(6.0, base_current + random.uniform(-0.5, 0.5))",
\* in millionths of an ampere
TEST_CURRENT_FLOOR == 6000000

\* generate_test_data() at time now with the random draws s; battery_current
\* is carried in millionths of an ampere
generate_test_data(s, now) ==
    [roll_angle |-> TEST_WAVE[now + 1].roll + s.roll_angle,
     pitch_angle |-> TEST_WAVE[now + 1].pitch + s.pitch_angle,
     yaw_angle |-> TEST_WAVE[now + 1].yaw,
     altitude |-> TEST_WAVE[now + 1].altitude + s.altitude,
     roll_setpoint |-> 0,
     pitch_setpoint |-> 0,
     yaw_setpoint |-> TEST_WAVE[now + 1].yaw,
     altitude_setpoint |-> TEST_WAVE[now + 1].altitude + s.altitude,
     battery_voltage |-> TEST_VOLTAGE_FLOOR,
     battery_current |->
         IF TEST_WAVE[now + 1].current + s.battery_current < TEST_CURRENT_FLOOR
         THEN TEST_CURRENT_FLOOR
         ELSE TEST_WAVE[now + 1].current + s.battery_current,
     gps_latitude |-> Rat(TEST_LAT_CENTER + TEST_WAVE[now + 1].lat_offset
                              + s.lat_offset, COORD_SCALE),
     gps_longitude |-> Rat(TEST_LON_CENTER + TEST_WAVE[now + 1].lon_offset
                               + s.lon_offset, COORD_SCALE),
     gps_fix |-> 1,
     gps_satellites |-> s.gps_satellites,
     timestamp |-> now]

\* "min(100, max(0, (battery_voltage - 11.0) / (16.8 - 11.0) * 100))": at
\* 11.5 V 250/29 percent (8.62...), 1500 units
test_battery_percentage(battery_voltage) ==
    ClipPercent(((battery_voltage - TEST_VOLTAGE_EMPTY) * 100 * PERCENT_SCALE)
                    \div TEST_VOLTAGE_SPAN)

\* "'battery_current': test_data['battery_current']": the generator's
\* current in the unit drone_telemetry carries a current in, the hundredth
\* of an ampere nearest to it
test_battery_current(battery_current) ==
    LET per_unit == TEST_CURRENT_SCALE \div VOLT_SCALE
    IN  (battery_current + per_unit \div 2) \div per_unit

\* "int(battery_current * 1000)": the current in thousandths of an ampere
\* with the fraction cut off, held like the 32-bit count of a battery frame
test_consumption_mah(battery_current) ==
    LET mah == battery_current \div (TEST_CURRENT_SCALE \div MAH_PER_AMPERE)
    IN  [lo |-> mah % 65536, hi |-> mah \div 65536]

\* latest_data after the block of _test_data_loop that follows
\* generate_test_data returning test_data
store_test_data(ld, test_data) ==
    [ld EXCEPT
        !.ahrs =
            {[roll_angle |-> test_data.roll_angle,
              pitch_angle |-> test_data.pitch_angle,
              yaw_angle |-> test_data.yaw_angle,
              altitude |-> test_data.altitude,
              roll_setpoint |-> test_data.roll_setpoint,
              pitch_setpoint |-> test_data.pitch_setpoint,
              yaw_setpoint |-> test_data.yaw_setpoint,
              altitude_setpoint |-> test_data.altitude_setpoint,
              timestamp |-> test_data.timestamp]},
        !.flight_data =
            [roll_angle |-> test_data.roll_angle,
             pitch_angle |-> test_data.pitch_angle,
             yaw_angle |-> test_data.yaw_angle,
             barometric_altitude |-> test_data.altitude,
             roll_setpoint |-> test_data.roll_setpoint,
             pitch_setpoint |-> test_data.pitch_setpoint,
             yaw_setpoint |-> test_data.yaw_setpoint,
             altitude_setpoint |-> test_data.altitude_setpoint],
        !.drone_telemetry.flight_mode = "STABILIZE",
        !.drone_telemetry.armed_status =
            test_data.battery_voltage > TEST_ARMED_ABOVE,
        !.drone_telemetry.arming_state =
            IF test_data.battery_voltage > TEST_ARMED_ABOVE THEN "ARMED"
            ELSE "STANDBY",
        !.drone_telemetry.battery_cells = TEST_CELLS,
        !.drone_telemetry.voltage_per_cell =
            Rat(test_data.battery_voltage, VOLT_SCALE * TEST_CELLS),
        !.drone_telemetry.battery_current =
            test_battery_current(test_data.battery_current),
        !.drone_telemetry.consumption_mah =
            test_consumption_mah(test_data.battery_current),
        !.drone_telemetry.estimated_flight_time =
            Rat((test_data.battery_voltage - TEST_VOLTAGE_EMPTY)
                    * TEST_FLIGHT_MINUTES, TEST_VOLTAGE_SPAN),
        !.power_system.battery_voltage = test_data.battery_voltage,
        !.power_system.battery_percentage =
            test_battery_percentage(test_data.battery_voltage),
        !.power_system.low_battery_warning =
            test_data.battery_voltage < TEST_LOW_BATTERY_BELOW,
        !.power_system.total_voltage = {test_data.battery_voltage},
        !.power_system.cell_voltage =
            {[i \in 1..TEST_CELLS |->
                Rat(test_data.battery_voltage, VOLT_SCALE * TEST_CELLS)]},
        !.navigation_data.gps_latitude = test_data.gps_latitude,
        !.navigation_data.gps_longitude = test_data.gps_longitude,
        !.navigation_data.gps_fix = test_data.gps_fix,
        !.navigation_data.gps_satellites = test_data.gps_satellites,
        !.system_status.data_rate_ahrs = Rat(TEST_DATA_RATE_AHRS, 1),
        !.system_status.data_rate_gps = Rat(TEST_DATA_RATE_GPS, 1),
        !.system_status.last_ahrs_update = test_data.timestamp,
        !.system_status.connection_quality = TEST_CONNECTION_QUALITY]

\* the socketio events the generator emits after writing
TEST_EVENTS == <<"ahrs_data", "flight_data", "drone_telemetry",
                 "power_system", "navigation_data", "system_status">>

\* "if last_update: ... if time_since_update < 2.0": frame data is recent
recent_ahrs_update(ld, now) ==
    /\ ld.system_status.last_ahrs_update # None
    /\ now - ld.system_status.last_ahrs_update < STALE_AFTER

\* "while self.is_connected:" of _test_data_loop; the thread ends when the
\* flag is down
TestLoopCheck ==
    /\ test_thread = "check"
    /\ test_thread' = IF is_connected THEN "body" ELSE "none"
    /\ UNCHANGED <<linkVars, readerVars, demuxVars, senderVars, codecVars,
                   fcVars, test_mode, connect_pc>>

\* one pass of the loop body: nothing is written when last_ahrs_update is
\* recent; otherwise test data is generated with the draws s, written into
\* latest_data and emitted
TestLoopBody(s) ==
    /\ test_thread = "body"
    /\ test_thread' = "check"
    /\ IF recent_ahrs_update(latest_data, clock)
       THEN UNCHANGED <<latest_data, events>>
       ELSE /\ latest_data' =
                  store_test_data(latest_data, generate_test_data(s, clock))
            /\ events' = events \o TEST_EVENTS
    /\ UNCHANGED <<linkVars, readerVars, demuxVars, senderVars, codecVars,
                   fc_message, fc_call, fc_parsed, fc_calls, last_ahrs_time,
                   clock, test_mode, connect_pc>>

\* /api/stop_test_data: the flag is cleared; the thread does not read it
StopTestData ==
    /\ test_mode' = FALSE
    /\ UNCHANGED <<linkVars, readerVars, demuxVars, senderVars, codecVars,
                   fcVars, test_thread, connect_pc>>

\* a second passes with nothing received
Idle ==
    /\ clock < MaxClock
    /\ clock' = clock + 1
    /\ UNCHANGED <<linkVars, readerVars, demuxVars, senderVars, codecVars,
                   fc_message, fc_call, fc_parsed, fc_calls, latest_data,
                   events, last_ahrs_time, testVars, connect_pc>>

\* the frames the read loop of a connected station hands over
TestSessionFrames ==
    {InboundFrame(AHRS_ID, AhrsPayload(100, -200, 300)),
     InboundFrame(AHRS_ID, AhrsPayload(18001, 0, 0)),
     InboundFrame(GPS_ID, GpsPayload(375665000, 1269780000, 420, 1, 2, 0)),
     InboundFrame(BATTERY_ID, BatteryPayload(1480, 1000, 4, 1500))}

TestNext ==
    \/ ConnectOk(1)
    \/ ConnectStartGenerator
    \/ ConnectReturn
    \/ Disconnect
    \/ /\ is_connected
       /\ pc[1] = "loop"
       /\ \E message \in TestSessionFrames : ProcessFcMessage(message, 0)
    \/ Idle
    \/ TestLoopCheck
    \/ \E s \in TestDraws : TestLoopBody(s)
    \/ TriggerTestData
    \/ StopTestData
    \/ BroadcastPass

\* the frames come whole from the read loop: no byte waits at the port
TestInit == Init /\ rx = <<>>

SpecTest == TestInit /\ [][TestNext]_vars

\* ================================================================= claims
\* the payload field the frame layout prescribes: the first 16 bytes of the
\* payload, zero-padded
PayloadField(data) == [i \in 1..16 |-> IF i <= Len(data) THEN data[i] ELSE 0]

\* C1 (as claimed): whenever the send path has written a frame, the bytes
\* written are exactly 20: 'GS', the message id, the payload zero-padded or
\* truncated to 16 bytes, and the checksum of those 19 bytes.
C1_FrameIsTwentyBytes ==
    tx_ret = "True" =>
        LET head == <<SYNC_G, SYNC_S, tx_call.message_id>> \o PayloadField(tx_call.data)
        IN  /\ Len(tx_frame) = 20
            /\ tx_frame = Append(head, (255 - Sum(head)) % 256)

\* C2 (as claimed): the frame written by the send path passes the length,
\* sync and checksum checks of process_gs_message, which recovers the
\* message id and the first 16 payload bytes, zero-padded.
C2_RoundTrip ==
    gs_result # NoResult =>
        gs_result = [status |-> "ok", message_id |-> tx_call.message_id,
                     data |-> PayloadField(tx_call.data)]

\* the streams C3 is about: garbage free of the sync pair, then one frame
GarbageStream == scenario.nmea = <<>> /\ fc_pos(scenario.garbage) = -1

\* the read loop emitted the frame of the stream, that alone and once, and
\* kept nothing of the stream
OnlyTheFrame ==
    /\ dispatched = <<[kind |-> "binary", message |-> scenario.frame]>>
    /\ buffer[1] = <<>>

\* "buffer[0] == ord('$')" with "nmea_end != -1" for a '$' of the garbage:
\* the '$' at stream position i is the head of a buffer of at most 20 bytes,
\* so the loop finds a CR LF pair behind it exactly when one lies whole
\* within the 19 stream bytes after it
DollarWithCrLfInReach ==
    LET stream == scenario.garbage \o scenario.frame
    IN  \E i \in 1..Len(scenario.garbage) :
            /\ stream[i] = DOLLAR
            /\ \E j \in (i + 1)..(i + FRAME_LEN - 2) :
                   /\ j + 1 <= Len(stream)
                   /\ stream[j] = CR
                   /\ stream[j + 1] = LF

\* the garbage begins with '$': the one place where a '$' of the stream
\* arrives in an empty buffer
LeadingDollar ==
    scenario.garbage # <<>> /\ scenario.garbage[1] = DOLLAR

\* C3 (as claimed, on garbage that does not begin with '$'): garbage without
\* the sync pair followed by one valid frame: never more than one message is
\* emitted, and once the stream is read the frame has been emitted, once,
\* and the garbage is gone. It fails on a '$' that arrived in a non-empty
\* buffer and reached the head by the one-byte shifts, as C29 does.
C3_GarbageThenFrame_Claimed ==
    (GarbageStream /\ ~LeadingDollar) =>
        /\ Len(dispatched) <= 1
        /\ (rx = <<>> => OnlyTheFrame)

\* what holds of such a stream: the frame is emitted, alone and once, and
\* the garbage is gone, exactly when no '$' of the garbage has a CR LF pair
\* within the 19 bytes after it; a '$' that has one starts a sentence
GarbageThenFrameUnlessSentence ==
    GarbageStream =>
        /\ ~DollarWithCrLfInReach =>
               /\ Len(dispatched) <= 1
               /\ \A k \in 1..Len(dispatched) :
                      dispatched[k] = [kind |-> "binary", message |-> scenario.frame]
        /\ rx = <<>> => (OnlyTheFrame <=> ~DollarWithCrLfInReach)

\* a stream of that kind read to its end: 50 garbage bytes holding a '$', a
\* CR and an 0x46 but no sync pair and no CR LF in reach of the '$', then
\* the frame, which has been emitted
GarbageDiscarded ==
    /\ rx = <<>>
    /\ Len(scenario.garbage) = 50
    /\ GarbageStream /\ ~DollarWithCrLfInReach
    /\ \E i \in 1..50 : scenario.garbage[i] = DOLLAR
    /\ \E i \in 1..50 : scenario.garbage[i] = CR
    /\ \E i \in 1..50 : scenario.garbage[i] = SYNC_F
    /\ OnlyTheFrame
    /\ fc_status(dispatched[1].message) = "ok"

\* a leading '$' whose only CR LF lies in the frame's payload, 24 bytes on:
\* the '$' is dropped with the rest of the garbage and the frame is emitted
DollarOutOfReach ==
    /\ rx = <<>>
    /\ GarbageStream /\ LeadingDollar /\ ~DollarWithCrLfInReach
    /\ Len(scenario.garbage) = 18
    /\ \E j \in 1..(FRAME_LEN - 1) :
           scenario.frame[j] = CR /\ scenario.frame[j + 1] = LF
    /\ OnlyTheFrame

\* C4 (as claimed): an NMEA sentence followed at once by a valid frame:
\* once the stream is read, the sentence and then the frame have been
\* emitted, each whole and nothing else.
C4_NmeaThenFrame ==
    (scenario.nmea # <<>> /\ rx = <<>>) =>
        dispatched = <<[kind |-> "nmea", message |-> scenario.nmea],
                       [kind |-> "binary", message |-> scenario.frame]>>

\* C5 (as claimed): with '$' at the head of the buffer every byte read is
\* appended and nothing is dropped until CR LF is complete; the step that
\* completes it emits the whole buffer as one sentence and empties it.
C5_NmeaAccumulates ==
    [][(Len(buffer[1]) > 0 /\ Head(buffer[1]) = DOLLAR /\ rx' # rx) =>
          LET buf == Append(buffer[1], Head(rx))
              complete == \E j \in 2..Len(buf) : buf[j - 1] = CR /\ buf[j] = LF
          IN  IF complete
              THEN /\ dispatched' = Append(dispatched, [kind |-> "nmea", message |-> buf])
                   /\ buffer'[1] = <<>>
              ELSE /\ dispatched' = dispatched
                   /\ buffer'[1] = buf]_vars

\* C6 (as claimed): once a read loop has ended on its 5th failed attempt,
\* the session is and stays Disconnected and, until connect is invoked, no
\* handle is opened and no thread enters reconnect_serial.
C6_NoRetryAfterGivingUp ==
    [][(gave_up /\ gave_up') =>
          /\ ~is_connected /\ connection_status = "Disconnected"
          /\ ~is_connected' /\ connection_status' = "Disconnected"
          /\ opened' = opened
          /\ \A t \in Readers :
                 pc'[t] \in {"rc_close", "rc_open"} => pc'[t] = pc[t]]_vars

\* C7 (as claimed): every I/O error caught by the read loop, whatever its
\* message, is followed by a call of reconnect_serial.
C7_ErrorTriggersReconnect ==
    [][\A t \in Readers :
          (pc[t] \in {"except_invalid", "except_other"} /\ pc'[t] # pc[t])
              => pc'[t] = "rc_close"]_vars

\* C8 (as claimed): at most one handle opened by the session is open, and
\* an open handle is the one serial_port refers to.
C8_OneOpenHandle ==
    /\ Cardinality(open_handles) <= 1
    /\ open_handles \subseteq {serial_port}

\* C9 (as claimed): at most one read-loop thread is running.
C9_OneReadLoop ==
    Cardinality({t \in Readers : pc[t] # "idle"}) <= 1

\* C10 (as claimed): on a handle, the chunks of one write are not separated
\* by a chunk of another context's write.
C10_WritesSerialized ==
    \A i, j \in 1..Len(wire) :
        (i < j /\ ~wire[i].last /\ wire[j].h = wire[i].h /\ wire[j].by # wire[i].by)
            => \E k \in (i + 1)..(j - 1) : wire[k].by = wire[i].by /\ wire[k].h = wire[i].h

\* C11 (as claimed): no call of the send path ends by raising; each returns
\* True or False, whatever the read loop's reconnect_serial and disconnect do
\* between its checks and its write.
C11_SendNeverRaises ==
    \A s \in Senders : snd[s].ret \in {"none", "True", "False"}

\* the session is Connected: the flag is set and the handle is there and open
SessionConnected == is_connected /\ serial_port # None /\ serial_port \in open_handles

\* C12: a call of send_message, send_pid_gain or request_pid_gain made while
\* the session is not Connected returns False and writes nothing; made while
\* Connected it performs at most one write.
C12_NoWriteUnlessConnected ==
    [][(tx_call = NoCall /\ tx_call' # NoCall) =>
          IF SessionConnected
          THEN Len(wire') <= Len(wire) + 1
          ELSE tx_ret' = "False" /\ wire' = wire /\ tx_frame' = <<>>]_vars

\* C12 witness: request_pid_gain was called while reconnect_serial had
\* serial_port at None (is_connected still set); it returned False and
\* nothing was written.
C12_Witness ==
    /\ tx_call.fn = "request_pid_gain"
    /\ tx_ret = "False"
    /\ wire = <<>>
    /\ is_connected /\ serial_port = None

\* C13 (as claimed): when /api/connect answers with an error because the
\* port did not open, the session is Disconnected after the call, the call
\* started no read-loop thread, and the answer carries the error's message,
\* whatever the session was before.
C13_ConnectFailureLeavesDisconnected ==
    [][(response'.status = "error" /\ response' # response) =>
          /\ ~is_connected'
          /\ connection_status' = "Disconnected"
          /\ pc' = pc
          /\ response'.message \in ConnectErrors]_vars

\* C14 (as claimed): after /api/disconnect has answered, with no connect
\* call under way, the read-loop thread eventually ends.
C14_ReadLoopEndsAfterDisconnect ==
    (response.message = "Disconnected" /\ connect_pc = "idle")
        ~> (pc[1] = "idle")

\* C15: after every iteration of the read loop that read a byte, the buffer
\* holds at most 100 bytes, and when the iteration emitted a message the
\* buffer holds exactly what followed that message's bytes.
C15_BufferBounded ==
    [][rx' # rx =>
          LET buf == Append(buffer[1], Head(rx))
              out == SubSeq(dispatched', Len(dispatched) + 1, Len(dispatched'))
          IN  /\ Len(buffer'[1]) <= BUFFER_LIMIT
              /\ Len(out) <= 1
              /\ out # <<>> =>
                   \E k \in 0..Len(buf) :
                       /\ k + Len(out[1].message) <= Len(buf)
                       /\ SubSeq(buf, k + 1, k + Len(out[1].message)) = out[1].message
                       /\ buffer'[1] = SliceFrom(buf, k + Len(out[1].message))]_vars

\* C15 witness: a stream of 120 bytes (a 100-byte sentence, then a frame) has
\* been read to its end, the frame was emitted and the buffer is empty.
C15_Witness ==
    /\ rx = <<>>
    /\ Len(scenario.nmea) = BUFFER_LIMIT
    /\ Len(scenario.nmea \o scenario.frame) > BUFFER_LIMIT
    /\ dispatched = <<[kind |-> "binary", message |-> scenario.frame]>>
    /\ buffer[1] = <<>>

\* C16 (and its witness below): a 20-byte message whose first two bytes are
\* not 'FC' is rejected whatever the other 18 bytes are, a correct checksum
\* included: no parser is called, latest_data stays as it was and no event
\* is emitted.
C16_BadSyncRejected ==
    [][(fc_calls' # fc_calls /\ Len(fc_message') = 20
          /\ SubSeq(fc_message', 1, 2) # <<70, 67>>) =>
          /\ fc_call'.status = "BadSync"
          /\ fc_call'.parser = "none"
          /\ fc_parsed' = {}
          /\ latest_data' = latest_data
          /\ events' = events]_vars

\* C16 witness: a well-formed station frame ('GS', id 0x10, correct
\* checksum) was handed over and rejected for its sync bytes.
C16_Witness ==
    /\ fc_message = send_message_frame(AHRS_ID, Zeros(16))
    /\ fc_message[20] = (255 - Sum(SubSeq(fc_message, 1, 19))) % 256
    /\ fc_call.status = "BadSync"
    /\ events = <<>>

\* C17: a parser is called only for a message of exactly 20 bytes that
\* starts with 'FC' and whose byte 19 is (0xFF - sum of bytes 0..18) mod 256;
\* the checks are made in the order length, sync, checksum; the parser gets
\* byte 2 as message id and bytes 3..18 (16 bytes) as payload.
C17_DispatchOnlyValid ==
    fc_message # <<>> =>
        LET m == fc_message
            length_ok == Len(m) = 20
            sync_ok == m[1] = 70 /\ m[2] = 67
            checksum_ok == m[20] = (255 - Sum(SubSeq(m, 1, 19))) % 256
        IN  /\ fc_call.status =
                  IF ~length_ok THEN "BadLength"
                  ELSE IF ~sync_ok THEN "BadSync"
                  ELSE IF ~checksum_ok THEN "BadChecksum"
                  ELSE "ok"
            /\ fc_call.parser # "none" =>
                  /\ length_ok /\ sync_ok /\ checksum_ok
                  /\ fc_call.message_id = m[3]
                  /\ Len(fc_call.data) = 16
                  /\ \A k \in 1..16 : fc_call.data[k] = m[k + 3]

\* C17 witness: a valid AHRS frame reached parse_ahrs_message with its 16
\* payload bytes.
C17_Witness ==
    /\ fc_message = InboundFrame(AHRS_ID, AhrsPayload(18000, -18000, 36000))
    /\ fc_call.parser = "parse_ahrs_message"
    /\ fc_call.data = AhrsPayload(18000, -18000, 36000)

\* m is f with the byte at 0-based position pos replaced by another value
OneByteChanged(m, f, pos) ==
    /\ Len(m) = Len(f)
    /\ m[pos + 1] # f[pos + 1]
    /\ \A q \in 1..Len(f) : q # pos + 1 => m[q] = f[q]

\* C18: a valid frame in which the message id or one payload byte (position
\* 2..18) is replaced by any other value fails the checksum check: of the
\* 256 values at that position only the original validates.
C18_SingleByteChangeDetected ==
    \A f \in BaseFrames : \A pos \in 2..18 :
        OneByteChanged(fc_message, f, pos) =>
            fc_call.status = "BadChecksum" /\ fc_call.parser = "none"

\* C18 witness: the all-zero AHRS frame with its message id replaced by the
\* GPS id was handed over and failed the checksum check.
C18_Witness ==
    /\ OneByteChanged(fc_message, InboundFrame(AHRS_ID, Zeros(16)), 2)
    /\ fc_message[3] = GPS_ID
    /\ fc_call.status = "BadChecksum"

\* C20: parse_ahrs_message accepts a payload exactly when the raw values
\* sent satisfy |roll| <= 18000, |pitch| <= 18000 and yaw <= 36000; roll
\* 18000 is accepted as 180.00 degrees and roll 18001 gives None.
C20_AhrsBounds ==
    fc_call.parser = "parse_ahrs_message" =>
        \A r \in RollRaws, p \in PitchRaws, y \in YawRaws :
            fc_call.data = AhrsPayload(r, p, y) =>
                /\ fc_parsed # {} <=>
                      (/\ -18000 <= r /\ r <= 18000
                       /\ -18000 <= p /\ p <= 18000
                       /\ y <= 36000)
                /\ \A d \in fc_parsed :
                      /\ d.roll_angle = r /\ d.pitch_angle = p /\ d.yaw_angle = y
                      /\ d.roll_angle <= 180 * 100
                /\ r = 18001 => fc_parsed = {}

\* C20 witness: a frame with roll 18000, pitch -18000 and yaw 36000 was
\* parsed and accepted with roll 180.00 degrees.
C20_Witness ==
    /\ fc_call.data = AhrsPayload(18000, -18000, 36000)
    /\ \E d \in fc_parsed : d.roll_angle = 18000 /\ d.yaw_angle = 36000
    /\ latest_data.flight_data.roll_angle = 18000

\* C19 (as claimed): in every frame the send path has written, the checksum
\* byte (the last byte written) is a byte value, equals (0xFF - sum of bytes
\* 0..18) mod 256, and the first 20 bytes sum to 0xFF modulo 256.
C19_ChecksumByte ==
    tx_ret = "True" =>
        LET checksum == tx_frame[Len(tx_frame)]
        IN  /\ checksum \in 0..255
            /\ checksum = (255 - Sum(SubSeq(tx_frame, 1, 19))) % 256
            /\ Sum(SubSeq(tx_frame, 1, 20)) % 256 = 255

\* C19, what holds: the last byte written is always a byte value and what
\* calculate_checksum gives for the frame, whatever the byte sum; and for a
\* payload of at most 16 bytes it is byte 19 and the claimed value.
ChecksumWithinSixteen ==
    tx_ret = "True" =>
        /\ tx_frame[Len(tx_frame)] \in 0..255
        /\ tx_frame[Len(tx_frame)] = calculate_checksum(tx_frame)
        /\ Len(tx_call.data) <= 16 =>
              /\ Len(tx_frame) = 20
              /\ tx_frame[20] = (255 - Sum(SubSeq(tx_frame, 1, 19))) % 256
              /\ Sum(tx_frame) % 256 = 255

\* ------------------------------------------------------ rejected frames
\* message passes the length, sync and checksum checks
FrameChecksOut(m) ==
    /\ Len(m) = 20
    /\ m[1] = 70 /\ m[2] = 67
    /\ m[20] = (255 - Sum(SubSeq(m, 1, 19))) % 256

\* a single, given by its four bytes, is NaN, infinite or above 1000 in
\* magnitude
GainOutOfRange(b) ==
    is_nan_or_inf(F32(b)) \/ abs_above_pid_limit(F32(b))

\* a frame that passes the three checks and is then refused: an AHRS angle,
\* a GPS coordinate or a PID value out of range, or a message id that has no
\* parser
RejectedFrame(m) ==
    /\ FrameChecksOut(m)
    /\ LET id == m[3]
           data == SubSeq(m, 4, 19)
       IN  \/ /\ id = 16
              /\ \/ I16(SubSeq(data, 1, 2)) > 18000
                 \/ I16(SubSeq(data, 1, 2)) < -18000
                 \/ I16(SubSeq(data, 3, 4)) > 18000
                 \/ I16(SubSeq(data, 3, 4)) < -18000
                 \/ U16(SubSeq(data, 5, 6)) > 36000
           \/ /\ id = 17
              /\ data[1] # 36
              /\ \/ I32(SubSeq(data, 1, 4)) > 900000000
                 \/ I32(SubSeq(data, 1, 4)) < -900000000
                 \/ I32(SubSeq(data, 5, 8)) > 1800000000
                 \/ I32(SubSeq(data, 5, 8)) < -1800000000
           \/ /\ id \in 0..5
              /\ \/ GainOutOfRange(SubSeq(data, 1, 4))
                 \/ GainOutOfRange(SubSeq(data, 5, 8))
                 \/ GainOutOfRange(SubSeq(data, 9, 12))
           \/ id \notin (0..5) \cup (16..21)

\* C22: a call of process_fc_message with a frame that passes length, sync
\* and checksum but has an AHRS angle, a GPS coordinate or a PID value out of
\* range, or a message id outside 0x00..0x05 and 0x10..0x15, returns with
\* latest_data and the emitted events as they were; the call is the only
\* one made for the frame.
C22_RejectedFrameNoEffect ==
    [][(fc_calls' = fc_calls + 1 /\ RejectedFrame(fc_message')) =>
          /\ fc_parsed' = {}
          /\ latest_data' = latest_data
          /\ events' = events
          /\ last_ahrs_time' = last_ahrs_time]_vars

\* C22 witness: after a frame that was stored, a PID acknowledgement with a
\* NaN was handed over and refused; latest_data still holds what the first
\* frame left.
C22_Witness ==
    /\ fc_calls = 2
    /\ RejectedFrame(fc_message)
    /\ fc_call.parser = "parse_pid_gain_ack"
    /\ fc_parsed = {}
    /\ latest_data # InitialLatestData
    /\ events # <<>>

\* ---------------------------------------------------------------- routing
\* the handler the message id of a checked frame selects
HandlerOf(id) ==
    CASE id = 16 -> "parse_ahrs_message"
      [] id = 17 -> "parse_gps_message"
      [] id \in 0..5 -> "parse_pid_gain_ack"
      [] id = 18 -> "parse_battery_status"
      [] id = 19 -> "parse_esc_status"
      [] id = 20 -> "parse_flight_mode_status"
      [] id = 21 -> "parse_gps_enhanced_status"
      [] OTHER -> "none"

\* C23: a frame that passes the checks is handed to the one handler its
\* message id selects (0x10 AHRS, 0x11 GPS, 0x00..0x05 PID acknowledgement,
\* 0x12 battery, 0x13 ESC, 0x14 flight mode, 0x15 enhanced GPS, any other
\* id none: the unknown-message case), with that id and the 16 payload
\* bytes, whatever the payload.
C23_RoutingById ==
    (fc_calls > 0 /\ FrameChecksOut(fc_message)) =>
        /\ fc_call.status = "ok"
        /\ fc_call.parser = HandlerOf(fc_message[3])
        /\ fc_call.message_id = fc_message[3]
        /\ fc_call.data = SubSeq(fc_message, 4, 19)
        /\ fc_call.parser = "none" => fc_parsed = {}

\* C23 witness: the frame with id 0x15 and payload 1..16 was handed to the
\* enhanced-GPS handler, which stored its fix type.
C23_Witness ==
    /\ fc_message = InboundFrame(GPS_ENHANCED_ID, [k \in 1..16 |-> k])
    /\ fc_call.parser = "parse_gps_enhanced_status"
    /\ latest_data.drone_telemetry.gps_status.fix_type = 1
    /\ latest_data.ahrs = {}

\* ------------------------------------------------------------ flight mode
\* bit k of a byte
Bit(b, k) == (b \div (2 ^ k)) % 2

\* C27: for a flight-mode payload with mode id m and arming byte b the
\* record has armed_status true exactly when bit 0 of b is set,
\* arming_state chosen by bits 1-2 of b alone (0 STANDBY, 1 ARMING,
\* 2 ARMED, 3 DISARMING) and flight_mode MANUAL, STABILIZE, ALT_HOLD, AUTO,
\* RTL, LAND for m = 0..5 and UNKNOWN for every other m; the record is what
\* update_flight_mode_telemetry stores.
C27_FlightModeDecode ==
    fc_call.parser = "parse_flight_mode_status" =>
        LET m == fc_call.data[1]
            b == fc_call.data[2]
            k == Bit(b, 1) + 2 * Bit(b, 2)
        IN  /\ fc_parsed # {}
            /\ \A d \in fc_parsed :
                  /\ d.armed_status = (Bit(b, 0) = 1)
                  /\ d.arming_state =
                        (CASE k = 0 -> "STANDBY" [] k = 1 -> "ARMING"
                           [] k = 2 -> "ARMED" [] k = 3 -> "DISARMING")
                  /\ d.flight_mode =
                        (CASE m = 0 -> "MANUAL" [] m = 1 -> "STABILIZE"
                           [] m = 2 -> "ALT_HOLD" [] m = 3 -> "AUTO"
                           [] m = 4 -> "RTL" [] m = 5 -> "LAND"
                           [] OTHER -> "UNKNOWN")
                  /\ latest_data.drone_telemetry.armed_status = d.armed_status
                  /\ latest_data.drone_telemetry.arming_state = d.arming_state
                  /\ latest_data.drone_telemetry.flight_mode = d.flight_mode

\* C27 witness: mode 4 with arming byte 0xFE (bit 0 clear, bits 1-2 both
\* set, bits 3-7 set) was decoded as RTL, not armed, DISARMING.
C27_Witness ==
    /\ fc_call.parser = "parse_flight_mode_status"
    /\ fc_call.data[1] = 4 /\ fc_call.data[2] = 254
    /\ \E d \in fc_parsed :
          /\ d.flight_mode = "RTL" /\ ~d.armed_status
          /\ d.arming_state = "DISARMING"
    /\ latest_data.flight_mode = "RTL"

\* -------------------------------------------------------------- PID gains
\* the axis a PID message id stands for
AxisOf(id) ==
    CASE id = 0 -> "roll_inner" [] id = 1 -> "roll_outer"
      [] id = 2 -> "pitch_inner" [] id = 3 -> "pitch_outer"
      [] id = 4 -> "yaw_angle" [] id = 5 -> "yaw_rate"

\* m is a frame that passes the checks, has a message id 0x00..0x05 and
\* three gains that are finite and at most 1000 in magnitude
ValidAck(m) ==
    /\ FrameChecksOut(m)
    /\ m[3] \in 0..5
    /\ ~GainOutOfRange(SubSeq(m, 4, 7))
    /\ ~GainOutOfRange(SubSeq(m, 8, 11))
    /\ ~GainOutOfRange(SubSeq(m, 12, 15))

\* the entry of pid_gains a valid acknowledgement leaves
AckGains(m) ==
    {[p |-> F32(SubSeq(m, 4, 7)), i |-> F32(SubSeq(m, 8, 11)),
      d |-> F32(SubSeq(m, 12, 15))]}

\* C25: latest_data['pid_gains'] changes only in a call of
\* process_fc_message with a valid frame of message id 0x00..0x05, and then
\* only the entry of that id's axis changes; every such call leaves the
\* frame's p, i, d under that axis. send_pid_gain and request_pid_gain leave
\* pid_gains as it was.
C25_PidGainsOnlyByAck ==
    [][/\ latest_data'.pid_gains # latest_data.pid_gains =>
            /\ fc_calls' = fc_calls + 1
            /\ ValidAck(fc_message')
            /\ \A g \in GainTypes \ {AxisOf(fc_message'[3])} :
                  latest_data'.pid_gains[g] = latest_data.pid_gains[g]
       /\ (fc_calls' = fc_calls + 1 /\ ValidAck(fc_message')) =>
            latest_data'.pid_gains[AxisOf(fc_message'[3])] =
                AckGains(fc_message')
       /\ tx_call' # tx_call =>
            latest_data'.pid_gains = latest_data.pid_gains]_vars

\* C25 witness: send_pid_gain('roll_inner', ...) has written its frame and
\* an acknowledgement for pitch_inner has been stored; roll_inner is still
\* unset.
C25_Witness ==
    /\ tx_call.fn = "send_pid_gain" /\ tx_call.message_id = 0
    /\ tx_ret = "True"
    /\ ValidAck(fc_message) /\ fc_message[3] = 2
    /\ latest_data.pid_gains["pitch_inner"] = AckGains(fc_message)
    /\ latest_data.pid_gains["roll_inner"] = {}

\* ------------------------------------------------------------ send_pid_gain
\* sign, exponent and fraction of the single nearest to a gain value
FloatFields(v) ==
    CASE v = "0.0" -> [sign |-> 0, exp |-> 0, mant |-> 0]
      [] v = "1.0" -> [sign |-> 0, exp |-> 127, mant |-> 0]
      [] v = "-1.0" -> [sign |-> 1, exp |-> 127, mant |-> 0]
      [] v = "2.5" -> [sign |-> 0, exp |-> 128, mant |-> 2097152]
      [] v = "1000.0" -> [sign |-> 0, exp |-> 136, mant |-> 7995392]

\* the bytes written start with 'GS', the message id and p, i, d as
\* little-endian singles followed by four zero bytes
CarriesGains(written, id, p, i, d) ==
    /\ Len(written) >= 19
    /\ written[1] = 71 /\ written[2] = 83
    /\ written[3] = id
    /\ F32(SubSeq(written, 4, 7)) = FloatFields(p)
    /\ F32(SubSeq(written, 8, 11)) = FloatFields(i)
    /\ F32(SubSeq(written, 12, 15)) = FloatFields(d)
    /\ \A k \in 16..19 : written[k] = 0

\* C24 (as claimed): on a connected session send_pid_gain(axis, p, i, d)
\* with one of the six axes writes one 20-byte frame with the index of the
\* axis as message id, p, i, d as little-endian singles in payload bytes
\* 0..11, zeros in payload bytes 12..15 and the checksum as byte 19; with
\* any other axis it returns False and writes nothing.
C24_PidGainFrame ==
    tx_call.fn = "send_pid_gain" =>
        IF tx_ret = "True"
        THEN \E p \in FloatValues, i \in FloatValues, d \in FloatValues :
                /\ tx_call.data = send_pid_gain_data(p, i, d)
                /\ tx_call.message_id \in 0..5
                /\ CarriesGains(tx_frame, tx_call.message_id, p, i, d)
                /\ Len(tx_frame) = 20
                /\ tx_frame[20] = (255 - Sum(SubSeq(tx_frame, 1, 19))) % 256
        ELSE tx_ret = "False" /\ tx_frame = <<>> /\ wire = <<>>

\* C24, what holds: the call writes 28 bytes in one write: 'GS', the index
\* of the axis, p, i, d as little-endian singles, twelve zero bytes and the
\* checksum of the 27 bytes before it; with an axis outside the six it
\* returns False and writes nothing.
PidGainAsWritten ==
    tx_call.fn = "send_pid_gain" =>
        IF tx_ret = "True"
        THEN \E p \in FloatValues, i \in FloatValues, d \in FloatValues :
                /\ tx_call.data = send_pid_gain_data(p, i, d)
                /\ tx_call.message_id \in 0..5
                /\ CarriesGains(tx_frame, tx_call.message_id, p, i, d)
                /\ Len(tx_frame) = 28
                /\ \A k \in 16..27 : tx_frame[k] = 0
                /\ tx_frame[28] = (255 - Sum(SubSeq(tx_frame, 1, 27))) % 256
                /\ Len(wire) = 1
        ELSE tx_ret = "False" /\ tx_frame = <<>> /\ wire = <<>>

\* -------------------------------------------------------------- GPS bounds
\* |latitude| <= 90 and |longitude| <= 180 on exact values
WithinGpsBounds(latitude, longitude) ==
    /\ latitude.den # 0 /\ longitude.den # 0
    /\ latitude.num <= 90 * latitude.den
    /\ latitude.num >= -(90 * latitude.den)
    /\ longitude.num <= 180 * longitude.den
    /\ longitude.num >= -(180 * longitude.den)

\* C21 (as claimed): every GPS record the decoder returns, from a binary
\* 0x11 frame or from a GPGGA or GPRMC sentence, and every position stored
\* in latest_data['gps'] and navigation_data, has |latitude| <= 90 and
\* |longitude| <= 180.
C21_GpsBounds ==
    /\ fc_call.parser = "parse_gps_message" =>
          \A d \in fc_parsed : WithinGpsBounds(d.latitude, d.longitude)
    /\ \A d \in latest_data.gps : WithinGpsBounds(d.latitude, d.longitude)
    /\ WithinGpsBounds(latest_data.navigation_data.gps_latitude,
                       latest_data.navigation_data.gps_longitude)

\* C21, what holds: the bounds hold for every record that comes from a
\* binary frame.
BinaryGpsBounds ==
    (fc_call.status = "ok" /\ fc_call.parser = "parse_gps_message") =>
        \A d \in fc_parsed :
            /\ WithinGpsBounds(d.latitude, d.longitude)
            /\ latest_data.navigation_data.gps_latitude = d.latitude
            /\ latest_data.navigation_data.gps_longitude = d.longitude

\* ------------------------------------------------------- GPGGA conversion
\* degrees + (minutes + thousandths / 1000) / 60 as an exact number, negated
\* when negative holds
DegreesOf(q, negative) ==
    Rat((IF negative THEN -1 ELSE 1) * ((q[1] * 60 + q[2]) * 1000 + q[3]),
        60000)

\* C26: the sentence
\* $GPGGA,123519,4807.038,N,01131.000,E,1,08,0.9,545.4,M,,,,*47 decodes to
\* latitude 48 + 7.038/60, longitude 11 + 31.000/60, fix quality 1 and 8
\* satellites; every GPGGA sentence with latitude field DDMM.MMM and
\* longitude field DDDMM.MMM decodes to DD + MM.MMM/60 and DDD + MM.MMM/60,
\* negated for 'S' and for 'W'.
C26_GpggaDecode ==
    (fc_call.status = "nmea" /\ fc_call.parser = "parse_gps_message") =>
        /\ fc_message = GPGGA =>
              /\ fc_parsed # {}
              /\ \A d \in fc_parsed :
                    /\ d.latitude = Rat(48 * 60000 + 7038, 60000)
                    /\ d.longitude = Rat(11 * 60 + 31, 60)
                    /\ d.gps_fix = 1
                    /\ d.gps_satellites = 8
                    /\ latest_data.navigation_data.gps_latitude = d.latitude
                    /\ latest_data.navigation_data.gps_longitude = d.longitude
        /\ \A la \in LatParts, lo \in LonParts, h \in Hemispheres :
              fc_message = GgaSentence(CoordField(la[1], 2, la[2], la[3]), h[1],
                                       CoordField(lo[1], 3, lo[2], lo[3]), h[2])
              => /\ fc_parsed # {}
                 /\ \A d \in fc_parsed :
                       /\ d.latitude = DegreesOf(la, h[1] = <<83>>)
                       /\ d.longitude = DegreesOf(lo, h[2] = <<87>>)

\* C26 witness: the sentence of the protocol description was decoded and
\* stored: 48.1173 degrees is 481173/10000, 11.5167 is rounded from 691/60.
C26_Witness ==
    /\ fc_message = GPGGA
    /\ fc_call.status = "nmea"
    /\ \E d \in fc_parsed :
          /\ d.latitude = Rat(481173, 10000)
          /\ d.longitude = Rat(691, 60)
    /\ latest_data.navigation_data.gps_satellites = 8
    /\ latest_data.navigation_data.gps_fix = 1

\* ------------------------------------------------------ binary candidates
\* the byte stream of a run, and how many of its bytes have been read
Stream == scenario.garbage \o scenario.nmea \o scenario.frame
BytesRead == Len(Stream) - Len(rx)

\* C28: in every pass of the loop body the buffer is the part of the stream
\* from some position up to the byte just read, and that position never
\* moves back; a binary candidate handed to process_fc_message is 20
\* consecutive stream bytes that start with 0x46 0x43 at or after that
\* position, and the buffer is then what follows the slice, so no stream
\* byte is in two messages; when the buffer has reached 20 bytes and
\* nothing is handed over, exactly the oldest byte is dropped.
C28_BinaryCandidates ==
    [][rx' # rx =>
         LET buf == Append(buffer[1], Head(rx))
             start == BytesRead - Len(buffer[1])
             start_after == BytesRead' - Len(buffer'[1])
             out == SubSeq(dispatched', Len(dispatched) + 1, Len(dispatched'))
         IN  /\ SubSeq(dispatched', 1, Len(dispatched)) = dispatched
             /\ Len(out) <= 1
             /\ start_after >= start
             /\ buffer'[1] = SubSeq(Stream, start_after + 1, BytesRead')
             /\ \A k \in 1..Len(out) :
                   out[k].kind = "binary" =>
                      /\ Len(out[k].message) = 20
                      /\ out[k].message[1] = 70 /\ out[k].message[2] = 67
                      /\ start_after - 20 >= start
                      /\ out[k].message =
                            SubSeq(Stream, start_after - 19, start_after)
             /\ (Len(buf) >= 20 /\ out = <<>>) =>
                   /\ start_after = start + 1
                   /\ buffer'[1] = Tail(buf)]_vars

\* C28 witness: 47 bytes without a sync marker were read and dropped one at
\* a time, and the frame that followed was handed over whole.
C28_Witness ==
    /\ scenario.garbage = Zeros(47)
    /\ scenario.frame # <<>>
    /\ rx = <<>>
    /\ dispatched = <<[kind |-> "binary", message |-> scenario.frame]>>
    /\ buffer[1] = <<>>

\* ------------------------------------------------------ NMEA entry
\* the buffer of the loop after the first k bytes of the stream
RECURSIVE BufferAfter(_)
BufferAfter(k) ==
    IF k = 0 THEN <<>>
    ELSE demux_step(BufferAfter(k - 1), Stream[k]).buffer

\* the bytes handed over as messages by the pass that reads the next byte
HandedOver == SubSeq(dispatched', Len(dispatched) + 1, Len(dispatched'))

\* C29: whenever the loop hands over an NMEA sentence, the '$' that starts
\* it had arrived while the buffer was empty; a '$' that arrived into a
\* non-empty buffer never starts a sentence.
C29_NmeaOnlyFromEmptyBuffer ==
    [][rx' # rx =>
         \A k \in 1..Len(HandedOver) :
            HandedOver[k].kind = "nmea" =>
               BufferAfter(BytesRead - Len(buffer[1])) = <<>>]_vars

\* what the loop does instead: a sentence handed over starts with the '$'
\* at the head of the buffer, however that byte got there.
NmeaFromBufferHead ==
    [][rx' # rx =>
         \A k \in 1..Len(HandedOver) :
            HandedOver[k].kind = "nmea" =>
               /\ HandedOver[k].message[1] = DOLLAR
               /\ HandedOver[k].message =
                     SubSeq(Stream, BytesRead - Len(buffer[1]) + 1,
                            BytesRead - Len(buffer[1])
                               + Len(HandedOver[k].message))]_vars

\* ------------------------------------------------------ telemetry writers
\* the telemetry sections of latest_data
TelemetrySections(ld) ==
    <<ld.ahrs, ld.flight_data, ld.navigation_data, ld.power_system,
      ld.drone_telemetry>>

\* C30: while the station is connected, the telemetry sections ahrs,
\* flight_data, navigation_data, power_system and drone_telemetry change
\* only in a step in which process_fc_message handles a received message;
\* no generated telemetry is written.
C30_OnlyReceivedData ==
    [][(is_connected
          /\ TelemetrySections(latest_data') # TelemetrySections(latest_data))
         => fc_calls' = fc_calls + 1]_vars

\* what the program does: the sections change in a step of
\* process_fc_message or in a pass of the generator thread that connect
\* started, and the generator writes only when no AHRS data is recent.
TelemetryWriters ==
    [][TelemetrySections(latest_data') # TelemetrySections(latest_data)
         => \/ fc_calls' = fc_calls + 1
            \/ /\ test_thread = "body"
               /\ ~recent_ahrs_update(latest_data, clock)]_vars

\* the generator has written while connected: latest_data['ahrs'] holds a
\* record although nothing was handed to process_fc_message
GeneratedWhileConnected ==
    /\ is_connected
    /\ fc_calls = 0
    /\ latest_data.ahrs # {}
    /\ latest_data.power_system.total_voltage # {}

\* ------------------------------------------------------ stop_test_data
\* C31: once /api/stop_test_data has cleared test_mode on a connected
\* session, the generator writes no more: while is_connected holds and
\* test_mode is down (outside a connect call, which has test_mode down
\* between its lines 272 and 289), the telemetry sections change only in a
\* step of process_fc_message, and the generator thread makes no further
\* pass.
C31_StopEndsGenerator ==
    [][(/\ is_connected /\ ~test_mode /\ connect_pc = "idle"
        /\ is_connected' /\ ~test_mode' /\ connect_pc' = "idle")
         => /\ (TelemetrySections(latest_data') # TelemetrySections(latest_data)
                  => fc_calls' = fc_calls + 1)
            /\ (test_thread = "check" => test_thread' # "body")]_vars

\* what the program does: test_mode is only ever assigned; the thread ends
\* at its loop condition exactly when is_connected is down.
GeneratorEndsOnDisconnectOnly ==
    [][(test_thread # "none" /\ test_thread' = "none")
         => (test_thread = "check" /\ ~is_connected)]_vars

\* ------------------------------------------------------ after disconnect
\* C32: from the answer of /api/disconnect until connect is invoked again,
\* the session is Disconnected: is_connected is False, connection_status is
\* 'Disconnected' and no serial handle is open, whatever the read-loop
\* thread does in between. The last answer given is that of disconnect and
\* no connect call is under way.
C32_StaysDisconnected ==
    (response.message = "Disconnected" /\ connect_pc = "idle")
        => /\ ~is_connected
           /\ connection_status = "Disconnected"
           /\ open_handles = {}

\* what holds at the answer itself: the step of /api/disconnect leaves the
\* flags down and the handle it found in serial_port closed.
DisconnectedAtAnswer ==
    [][(response' # response /\ response'.message = "Disconnected")
         => /\ ~is_connected'
            /\ connection_status' = "Disconnected"
            /\ serial_port \notin open_handles']_vars

\* ------------------------------------------------------ staying connected
\* C33: a connected session goes to is_connected = False only by
\* /api/disconnect (a step that moves no read-loop thread) or by a read loop
\* that leaves on max_reconnect_attempts; in particular not by a thread that
\* left its loop because it had seen the flag down in an earlier session.
C33_StaysConnected ==
    [][(is_connected /\ ~is_connected')
         => \/ pc' = pc
            \/ \E t \in Readers : pc[t] = "break" /\ pc'[t] = "idle"]_vars

\* ------------------------------------------------------ flags and handle
\* no thread is inside reconnect_serial or between its loop and the
\* assignments that follow it, and no connect call is under way (disconnect
\* is a single step)
NoLinkStepInProgress ==
    /\ \A t \in Readers : pc[t] \notin {"rc_close", "rc_open", "exit", "break"}
    /\ connect_pc = "idle"

\* C34: whenever no connect, disconnect, reconnect or read-loop-exit step
\* is in progress, is_connected is True exactly when connection_status is
\* 'Connected', and is_connected True implies that serial_port is a handle.
C34_FlagsAndHandle ==
    NoLinkStepInProgress
        => /\ is_connected <=> connection_status = "Connected"
           /\ is_connected => serial_port # None

\* what holds: the two flags agree in every state, and a connected session
\* holds a handle whenever, in addition, no read loop is waiting to retry
\* after a reconnect_serial that returned False.
FlagsAgree ==
    /\ is_connected <=> connection_status = "Connected"
    /\ (NoLinkStepInProgress /\ \A t \in Readers : reconnect_attempts[t] = 0)
          => (is_connected => serial_port # None)

\* ------------------------------------------------------ buffer size
\* the loop body, run on buffer buf after the append, takes the branch that
\* emits a frame found at a sync offset greater than 0
offset_branch_taken(buf) ==
    /\ ~(buf[1] = DOLLAR /\ nmea_end(buf) # -1)
    /\ Len(buf) >= FRAME_LEN
    /\ SubSeq(buf, 1, 2) # <<SYNC_F, SYNC_C>>
    /\ fc_pos(buf) # -1
    /\ fc_pos(buf) + FRAME_LEN <= Len(buf)

\* the loop body, run on buffer buf after the append, clears the buffer at
\* "if len(buffer) > 100"
overflow_guard_taken(buf) ==
    /\ ~(buf[1] = DOLLAR /\ nmea_end(buf) # -1)
    /\ Len(IF Len(buf) >= FRAME_LEN THEN binary_branch(buf).buffer ELSE buf)
          > BUFFER_LIMIT

\* C35: in every pass of the loop body the buffer holds at most 20 bytes
\* after the append and at most 19 at the end of the pass, the branch that
\* emits a frame found at a sync offset greater than 0 is not taken and the
\* buffer is not cleared for holding more than 100 bytes.
C35_BufferAtMostTwenty ==
    [][rx' # rx =>
         LET buf == Append(buffer[1], Head(rx))
         IN  /\ Len(buf) <= FRAME_LEN
             /\ Len(buffer'[1]) <= FRAME_LEN - 1
             /\ ~offset_branch_taken(buf)
             /\ ~overflow_guard_taken(buf)]_vars

\* C35 witness: more than 100 bytes of a stream have been read, a sync pair
\* sits inside the buffer behind its head, and the buffer holds 19 bytes.
C35_Witness ==
    /\ BytesRead > BUFFER_LIMIT
    /\ Len(buffer[1]) = FRAME_LEN - 1
    /\ fc_pos(buffer[1]) > 0

\* ------------------------------------------------------ rejected candidates
\* the messages the loop hands over while it reads the stream from byte k
\* on with buffer buf, after those of acc: each with the stream position of
\* its first byte and the number of bytes the buffer held after the pass
RECURSIVE Emitted(_, _, _)
Emitted(k, buf, acc) ==
    IF k > Len(Stream) THEN acc
    ELSE CHOOSE res \in
            {Emitted(k + 1, r.buffer,
                     acc \o [i \in 1..Len(r.out) |->
                               [kind |-> r.out[i].kind,
                                message |-> r.out[i].message,
                                first |-> k - Len(r.buffer)
                                            - Len(r.out[i].message) + 1,
                                left |-> Len(r.buffer)]]) :
                r \in {demux_step(buf, Stream[k])}} : TRUE

\* a valid inbound frame starts at stream position q
ValidFrameAt(q) ==
    /\ q + FRAME_LEN - 1 <= Len(Stream)
    /\ fc_status(SubSeq(Stream, q, q + FRAME_LEN - 1)) = "ok"

\* C36: when the loop hands over 20 bytes that start with 0x46 0x43 and
\* fail the checksum, the pass leaves nothing of them in the buffer, and a
\* valid frame whose first byte is the 2nd to 20th byte of such a candidate
\* is never handed over.
C36_RejectedCandidateDropped ==
    rx = <<>> =>
        \E em \in {Emitted(1, <<>>, <<>>)} :
           /\ dispatched = [i \in 1..Len(em) |->
                              [kind |-> em[i].kind, message |-> em[i].message]]
           /\ \A i \in 1..Len(em) :
                 (em[i].kind = "binary"
                    /\ fc_status(em[i].message) = "BadChecksum")
                 => /\ em[i].left = 0
                    /\ \A q \in (em[i].first + 1)..(em[i].first + FRAME_LEN - 1) :
                          ValidFrameAt(q) =>
                             \A j \in 1..Len(em) :
                                ~(em[j].kind = "binary" /\ em[j].first = q)

\* C36 witness: the stream was 0x46 0x43 followed by a valid frame; its
\* first 20 bytes were handed over and fail the checksum, the frame that
\* starts at the third byte was not handed over, and two bytes are left.
C36_Witness ==
    /\ rx = <<>>
    /\ scenario.garbage = <<SYNC_F, SYNC_C>>
    /\ fc_status(scenario.frame) = "ok"
    /\ dispatched = <<[kind |-> "binary",
                       message |-> SubSeq(Stream, 1, FRAME_LEN)]>>
    /\ fc_status(SubSeq(Stream, 1, FRAME_LEN)) = "BadChecksum"
    /\ buffer[1] = SubSeq(scenario.frame, FRAME_LEN - 1, FRAME_LEN)

\* ------------------------------------------------------ back-to-back frames
\* the i-th 20-byte piece of byte string s
Piece(s, i) == SubSeq(s, FRAME_LEN * (i - 1) + 1, FRAME_LEN * i)

\* C37: while a stream of valid frames sent back-to-back is read into an
\* empty buffer, the messages handed over are exactly the frames read in
\* full so far, each once and in stream order, and the buffer holds the
\* bytes of the frame under way; at the end of a stream of k frames there
\* were k dispatches and the buffer is empty.
C37_BackToBackFrames ==
    /\ dispatched = [i \in 1..(BytesRead \div FRAME_LEN) |->
                       [kind |-> "binary", message |-> Piece(Stream, i)]]
    /\ buffer[1] = SubSeq(Stream, BytesRead - (BytesRead % FRAME_LEN) + 1,
                          BytesRead)

\* C37 witness: three frames were read to the end, among them one with '$'
\* and CR LF in its payload and one whose payload is sync pairs; three
\* messages were handed over and the buffer is empty.
C37_Witness ==
    /\ rx = <<>>
    /\ Len(Stream) = 3 * FRAME_LEN
    /\ Piece(Stream, 1) = InboundFrame(DOLLAR, <<DOLLAR, CR, LF>> \o Zeros(13))
    /\ Piece(Stream, 2) =
          InboundFrame(0, [i \in 1..16 |-> IF i % 2 = 1 THEN SYNC_F ELSE SYNC_C])
    /\ Piece(Stream, 3) \in Frames
    /\ Len(dispatched) = 3
    /\ buffer[1] = <<>>

\* ------------------------------------------------------ reconnect budget
\* C38: within one session the attempt counter of the read loop never
\* exceeds max_reconnect_attempts; it goes up by one exactly when a
\* reconnect_serial call returns False, and a call that returns True (a
\* handle is opened) sets it to 0 and empties the buffer, so reconnects can
\* go on beyond five in total.
C38_ConsecutiveFailuresOnly ==
    [][/\ reconnect_attempts'[1] <= max_reconnect_attempts
       /\ opened' # opened
            => reconnect_attempts'[1] = 0 /\ buffer'[1] = <<>>
       /\ reconnect_attempts'[1] # reconnect_attempts[1]
            => \/ /\ pc[1] = "rc_open"
                  /\ opened' = opened
                  /\ reconnect_attempts'[1] = reconnect_attempts[1] + 1
               \/ reconnect_attempts'[1] = 0]_vars

\* C38 witness: the session has reconnected twice and has had four failed
\* attempts since (six attempts or more in all, the counter at 4), and the
\* bytes read before a reconnect are gone from the buffer although no
\* message was handed over.
C38_Witness ==
    /\ opened = 3
    /\ reconnect_attempts[1] = max_reconnect_attempts - 1
    /\ pc[1] = "loop"
    /\ BytesRead \in 1..(FRAME_LEN - 1)
    /\ dispatched = <<>>
    /\ buffer[1] = <<>>

\* ------------------------------------------------ NMEA fix and the battery
\* C39: a step in which the NMEA entry accepted a GPGGA or GPRMC fix leaves
\* power_system.battery_voltage at the default 11.5 V, battery_percentage
\* at 100 and low_battery_warning off, whatever a binary GPS or battery
\* frame had stored before, and leaves system_status.last_gps_update as it
\* was.
C39_NmeaFixResetsBattery ==
    [][(/\ fc_calls' # fc_calls
        /\ fc_call'.status = "nmea"
        /\ fc_parsed' # {})
          => /\ latest_data'.power_system.battery_voltage = NMEA_BATTERY_VOLTAGE
             /\ latest_data'.power_system.battery_percentage = FULL_PERCENT
             /\ latest_data'.power_system.low_battery_warning = FALSE
             /\ latest_data'.system_status.last_gps_update =
                    latest_data.system_status.last_gps_update]_vars

\* C39 witness: a binary GPS frame stored 3.40 V with the warning on and
\* the time of its update; the fix that followed put 11.5 V, 100 percent
\* and no warning in power_system and left the time one second behind.
C39_Witness ==
    /\ fc_call.status = "nmea"
    /\ fc_parsed # {}
    /\ latest_data.battery_voltage = 340
    /\ latest_data.power_system.battery_voltage = NMEA_BATTERY_VOLTAGE
    /\ latest_data.power_system.battery_percentage = FULL_PERCENT
    /\ latest_data.power_system.low_battery_warning = FALSE
    /\ latest_data.system_status.last_gps_update # None
    /\ latest_data.system_status.last_gps_update < clock

====
